---- MODULE Spec2Model ----
(***************************************************************************)
(* A model of the tree-walking Lox interpreter: the Resolver, the          *)
(* Environment chain, the callable / class / instance objects and the      *)
(* Interpreter's statement and expression visitors.  The recursive         *)
(* visitors are unfolded into a machine with an explicit continuation      *)
(* stack (kont): one action per visitor entry and one per point where a    *)
(* visitor resumes after a sub-evaluation.                                 *)
(***************************************************************************)
EXTENDS Integers, Sequences, FiniteSets, TLC

VARIABLES
    program,       \* index of the source program being run (input of run),
                   \* Unparsable for a text the parser reports an error in
    status,        \* "start" | "resolve" | "interpret" | "done" | "panic" | "exit"
    had_runtime_error, \* main.rs HAD_RUNTIME_ERROR
    exit_code,     \* exit status of the process, -1 while it runs
    panic_message, \* message of the panic that ended the run, "" if none
    locals,        \* Interpreter.locals: association list <<[expr, depth]>>
    resolve_log,   \* history: one entry per Resolver::resolve_local call
    envs,          \* heap of Environment objects (Rc<RefCell<Environment>>)
    funs,          \* heap of LoxFunction objects
    classes,       \* heap of LoxClass objects
    instances,     \* heap of LoxInstance objects
    environment,   \* Interpreter.environment (index into envs)
    ip,            \* index of the next top-level statement of interpret()
    ctl,           \* what the interpreter is doing now
    kont,          \* continuation stack (the Rust call stack), top last
    output,        \* lines written by write_output
    stderr,        \* count of eprintln! lines of visit_print_stmt
    last_access,   \* history: the last get_at / assign_at call
    return_pending,\* history: a Return statement ran and its call has not ended
    block_entries, \* history: frame and key set seen at each open block's entry
    last_block,    \* history: what the last block exit left behind
    last_call,     \* history: the last completed or refused call
    evaluated      \* history: the expressions whose evaluation began, in order,
                   \* each with the depth of the continuation stack then

vars == <<program, status, had_runtime_error, exit_code,
          panic_message, locals, resolve_log, envs, funs,
          classes, instances, environment, ip, ctl, kont, output, stderr,
          last_access, return_pending, block_entries, last_block, last_call,
          evaluated>>

-----------------------------------------------------------------------------
(* Values (value.rs): Option<Value> is a Value whose tag may be "none".    *)

None == [t |-> "none", n |-> 0, s |-> ""]
Nil == [t |-> "nil", n |-> 0, s |-> ""]
Boolean(b) == [t |-> "bool", n |-> IF b THEN 1 ELSE 0, s |-> ""]
Number(i) == [t |-> "number", n |-> i, s |-> ""]
String(str) == [t |-> "string", n |-> 0, s |-> str]
CallableFunction(f) == [t |-> "function", n |-> f, s |-> ""]
CallableClass(c) == [t |-> "class", n |-> c, s |-> ""]
CallableClock == [t |-> "native", n |-> 0, s |-> "clock"]
Instance(i) == [t |-> "instance", n |-> i, s |-> ""]

IsCallable(v) == v.t \in {"function", "class", "native"}

(* Option<ReturnValue> (return_value.rs) *)
NoReturn == [some |-> FALSE, value |-> Nil]
ReturnValue(v) == [some |-> TRUE, value |-> v]

-----------------------------------------------------------------------------
(* Expression and statement nodes (expr.rs, stmt.rs).  A Token is kept as  *)
(* its lexeme and its line.                                                *)

NoExpr == [k |-> "None"]
Literal(v) == [k |-> "Literal", value |-> v]
Variable(name, line) == [k |-> "Variable", name |-> name, line |-> line]
Assign(name, line, value) ==
    [k |-> "Assign", name |-> name, line |-> line, value |-> value]
Call(callee, arguments, line) ==
    [k |-> "Call", callee |-> callee, arguments |-> arguments, line |-> line]
Get(object, name, line) ==
    [k |-> "Get", object |-> object, name |-> name, line |-> line]
Binary(left, operator, right, line) ==
    [k |-> "Binary", left |-> left, operator |-> operator, right |-> right,
     line |-> line]
Logical(left, operator, right, line) ==
    [k |-> "Logical", left |-> left, operator |-> operator, right |-> right,
     line |-> line]
Set(object, name, line, value) ==
    [k |-> "Set", object |-> object, name |-> name, line |-> line,
     value |-> value]
(* the keyword token's lexeme is the name that is looked up *)
This(line) == [k |-> "This", name |-> "this", line |-> line]
Super(line, method) ==
    [k |-> "Super", name |-> "super", line |-> line, method |-> method]

NoStmt == [k |-> "None"]
Block(stmts) == [k |-> "Block", stmts |-> stmts]
Class(name, superclass, methods) ==
    [k |-> "Class", name |-> name, superclass |-> superclass,
     methods |-> methods]
Expression(expr) == [k |-> "Expression", expr |-> expr]
Function(name, params, body) ==
    [k |-> "Function", name |-> name, params |-> params, body |-> body]
If(condition, then_branch, else_branch) ==
    [k |-> "If", condition |-> condition, then_branch |-> then_branch,
     else_branch |-> else_branch]
PrintStmt(expr) == [k |-> "Print", expr |-> expr]
Return(value) == [k |-> "Return", value |-> value]
Var(name, initializer) ==
    [k |-> "Var", name |-> name, initializer |-> initializer]
While(condition, body) ==
    [k |-> "While", condition |-> condition, body |-> body]

-----------------------------------------------------------------------------
(* HashMap helpers: a map is a function whose domain is its key set.       *)

EmptyMap == [x \in {} |-> None]
Insert(m, key, v) == [x \in DOMAIN m \cup {key} |-> IF x = key THEN v ELSE m[x]]
Last(seq) == seq[Len(seq)]
Pop(seq) == SubSeq(seq, 1, Len(seq) - 1)

-----------------------------------------------------------------------------
(* Environment (environment.rs).  An Environment is a heap cell            *)
(* [enclosing, values]; enclosing = 0 is None.  Operations that can panic  *)
(* return the panic message in the field panic ("" when they return).      *)

Environment_new(enclosing) == [enclosing |-> enclosing, values |-> EmptyMap]

Environment_define(heap, e, name, value) ==
    [heap EXCEPT ![e].values = Insert(heap[e].values, name, value)]

RECURSIVE Environment_get(_, _, _)
Environment_get(heap, e, name) ==
    IF name \in DOMAIN heap[e].values
    THEN IF heap[e].values[name] = None
         THEN [panic |-> "REASON", value |-> None, frame |-> e]
         ELSE [panic |-> "", value |-> heap[e].values[name], frame |-> e]
    ELSE IF heap[e].enclosing # 0
         THEN Environment_get(heap, heap[e].enclosing, name)
         ELSE [panic |-> "Variable not found", value |-> None, frame |-> 0]

(* ancestor: the walk starts from a fresh Rc holding a clone of the        *)
(* receiver, so with distance 0 the result is that clone (clone = TRUE)    *)
(* and not the receiver's own cell.                                        *)
RECURSIVE Environment_ancestor_walk(_, _, _)
Environment_ancestor_walk(heap, e, distance) ==
    IF distance = 0 THEN [panic |-> "", env |-> e, clone |-> FALSE]
    ELSE IF heap[e].enclosing = 0
         THEN [panic |-> "unwrap on None",
               env |-> 0, clone |-> FALSE]
         ELSE Environment_ancestor_walk(heap, heap[e].enclosing, distance - 1)

Environment_ancestor(heap, e, distance) ==
    IF distance = 0 THEN [panic |-> "", env |-> e, clone |-> TRUE]
    ELSE Environment_ancestor_walk(heap, e, distance)

Environment_get_at(heap, e, distance, name) ==
    LET a == Environment_ancestor(heap, e, distance)
    IN  IF a.panic # "" THEN [panic |-> a.panic, value |-> None, frame |-> 0]
        ELSE Environment_get(heap, a.env, name)

(* The message of the RuntimeError that assign reports. *)
UndefinedVariable(name) == "Undefined variable '" \o name \o "'"

(* assign that binds the name in the outermost frame of the chain when no   *)
(* frame holds it, instead of reporting the error.                          *)
RECURSIVE Environment_assign_or_define(_, _, _, _)
Environment_assign_or_define(heap, e, name, value) ==
    IF name \in DOMAIN heap[e].values \/ heap[e].enclosing = 0
    THEN [panic |-> "", heap |-> Environment_define(heap, e, name, value),
          frame |-> e]
    ELSE Environment_assign_or_define(heap, heap[e].enclosing, name, value)

RECURSIVE Environment_assign(_, _, _, _)
Environment_assign(heap, e, name, value) ==
    IF name \in DOMAIN heap[e].values
    THEN [panic |-> "", heap |-> Environment_define(heap, e, name, value),
          frame |-> e]
    ELSE IF heap[e].enclosing # 0
         THEN Environment_assign(heap, heap[e].enclosing, name, value)
         ELSE [panic |-> UndefinedVariable(name), heap |-> heap, frame |-> 0]

(* assign_at: with distance 0 the assignment is made to the clone that     *)
(* ancestor returns; when the clone holds the name the write stays in the  *)
(* clone (frame = 0: no cell of the heap changes), otherwise assign walks  *)
(* on from the clone's enclosing cell, which is shared.                    *)
Environment_assign_at(heap, e, distance, name, value) ==
    LET a == Environment_ancestor(heap, e, distance)
    IN  IF a.panic # "" THEN [panic |-> a.panic, heap |-> heap, frame |-> 0]
        ELSE IF ~a.clone THEN Environment_assign(heap, a.env, name, value)
        ELSE IF name \in DOMAIN heap[e].values
             THEN [panic |-> "", heap |-> heap, frame |-> 0]
        ELSE IF heap[e].enclosing # 0
             THEN Environment_assign(heap, heap[e].enclosing, name, value)
        ELSE [panic |-> UndefinedVariable(name), heap |-> heap, frame |-> 0]

(* The frame exactly `distance` parent-hops outward from e (0 if the chain *)
(* is shorter).                                                            *)
RECURSIVE Hop(_, _, _)
Hop(heap, e, distance) ==
    IF e = 0 \/ distance = 0 THEN e
    ELSE Hop(heap, heap[e].enclosing, distance - 1)

(* The frames of the chain that starts at e, innermost first.              *)
RECURSIVE Chain(_, _)
Chain(heap, e) == IF e = 0 THEN <<>> ELSE <<e>> \o Chain(heap, heap[e].enclosing)

-----------------------------------------------------------------------------
(* Interpreter.locals: HashMap<Expr, usize>.  The key is the expression    *)
(* itself (Expr derives Eq and Hash), so two textually equal expressions   *)
(* are one key.                                                            *)

RECURSIVE LocalsIndex(_, _, _)
LocalsIndex(map, expr, i) ==
    IF i > Len(map) THEN 0
    ELSE IF map[i].expr = expr THEN i
    ELSE LocalsIndex(map, expr, i + 1)

(* locals.get(expr): the recorded depth, or -1 for None *)
LocalsGet(map, expr) ==
    LET i == LocalsIndex(map, expr, 1)
    IN  IF i = 0 THEN -1 ELSE map[i].depth

(* Interpreter::resolve: locals.insert(expr.clone(), depth) *)
Interpreter_resolve(map, expr, depth) ==
    LET i == LocalsIndex(map, expr, 1)
    IN  IF i = 0 THEN Append(map, [expr |-> expr, depth |-> depth])
        ELSE [map EXCEPT ![i].depth = depth]

-----------------------------------------------------------------------------
(* Resolver (resolver.rs).  The resolver state rs holds its fields, the    *)
(* interpreter's locals it writes to, the message of a panic, and the      *)
(* history of resolve_local calls.                                         *)

Resolver_new ==
    [scopes |-> <<>>, locals |-> <<>>, current_function |-> "None",
     current_class |-> "None", panic |-> "", log |-> <<>>]

Resolver_begin_scope(rs) == [rs EXCEPT !.scopes = Append(rs.scopes, EmptyMap)]

Resolver_end_scope(rs) == [rs EXCEPT !.scopes = Pop(rs.scopes)]

(* declare without the test for a name the scope already holds: the       *)
(* variant C22 is tested against.                                          *)
Resolver_declare_unchecked(rs, name) ==
    IF rs.panic # "" \/ rs.scopes = <<>> THEN rs
    ELSE [rs EXCEPT !.scopes[Len(rs.scopes)] =
              Insert(Last(rs.scopes), name, FALSE)]

Resolver_declare(rs, name) ==
    IF rs.panic # "" \/ rs.scopes = <<>> THEN rs
    ELSE IF name \in DOMAIN Last(rs.scopes)
    THEN [rs EXCEPT !.panic =
              "Variable with this name already declared in this scope."]
    ELSE [rs EXCEPT !.scopes[Len(rs.scopes)] =
              Insert(Last(rs.scopes), name, FALSE)]

Resolver_define(rs, name) ==
    IF rs.panic # "" \/ rs.scopes = <<>> THEN rs
    ELSE [rs EXCEPT !.scopes[Len(rs.scopes)] =
              Insert(Last(rs.scopes), name, TRUE)]

(* resolve_local: for (i, scope) in scopes.iter().enumerate().rev(); i is  *)
(* the scope's index counted from the bottom of the stack (0 = outermost   *)
(* open scope), the loop has no return, and every scope that holds the     *)
(* name inserts its own i.  pos is the 1-based position of scope i.        *)
RECURSIVE Resolver_resolve_local_loop(_, _, _, _)
Resolver_resolve_local_loop(rs, expr, name, pos) ==
    IF pos = 0 THEN rs
    ELSE Resolver_resolve_local_loop(
             IF name \in DOMAIN rs.scopes[pos]
             THEN [rs EXCEPT !.locals = Interpreter_resolve(rs.locals, expr, pos - 1)]
             ELSE rs,
             expr, name, pos - 1)

Resolver_resolve_local(rs, expr, name) ==
    LET after == Resolver_resolve_local_loop(rs, expr, name, Len(rs.scopes))
    IN  [after EXCEPT !.log = Append(rs.log,
            [expr |-> expr, name |-> name,
             scopes |-> [i \in 1..Len(rs.scopes) |-> DOMAIN rs.scopes[i]],
             recorded |-> LocalsGet(after.locals, expr),
             before |-> LocalsGet(rs.locals, expr)])]

RECURSIVE Resolver_resolve_expr(_, _)
RECURSIVE Resolver_resolve_stmt(_, _)
RECURSIVE Resolver_resolve_exprs(_, _, _)
RECURSIVE Resolver_resolve(_, _, _)
RECURSIVE Resolver_resolve_methods(_, _, _)

(* visit_variable_expr without the test of the innermost scope: the        *)
(* variant C21 is tested against.                                          *)
Resolver_visit_variable_expr_unchecked(rs, expr) ==
    IF rs.scopes # <<>> THEN Resolver_resolve_local(rs, expr, expr.name) ELSE rs

Resolver_visit_variable_expr(rs, expr) ==
    IF rs.scopes # <<>>
    THEN IF expr.name \in DOMAIN Last(rs.scopes) /\ ~Last(rs.scopes)[expr.name]
         THEN [rs EXCEPT !.panic =
                   "Can't read local variable in its own initializer."]
         ELSE Resolver_resolve_local(rs, expr, expr.name)
    ELSE rs

Resolver_visit_assign_expr(rs, expr) ==
    LET r1 == Resolver_resolve_expr(rs, expr.value)
    IN  IF r1.panic # "" THEN r1 ELSE Resolver_resolve_local(r1, expr, expr.name)

Resolver_visit_call_expr(rs, expr) ==
    Resolver_resolve_exprs(Resolver_resolve_expr(rs, expr.callee),
                           expr.arguments, 1)

Resolver_visit_get_expr(rs, expr) == Resolver_resolve_expr(rs, expr.object)

Resolver_visit_binary_expr(rs, expr) ==
    Resolver_resolve_expr(Resolver_resolve_expr(rs, expr.left), expr.right)

Resolver_visit_logical_expr(rs, expr) ==
    Resolver_resolve_expr(Resolver_resolve_expr(rs, expr.left), expr.right)

Resolver_visit_set_expr(rs, expr) ==
    Resolver_resolve_expr(Resolver_resolve_expr(rs, expr.object), expr.value)

Resolver_visit_super_expr(rs, expr) ==
    IF rs.current_class = "None"
    THEN [rs EXCEPT !.panic = "Can't use 'super' outside of a class."]
    ELSE IF rs.current_class # "Subclass"
    THEN [rs EXCEPT !.panic = "Can't use 'super' in a class with no superclass."]
    ELSE Resolver_resolve_local(rs, expr, expr.name)

Resolver_visit_this_expr(rs, expr) ==
    IF rs.current_class = "None"
    THEN [rs EXCEPT !.panic = "Can't use 'this' outside of a class."]
    ELSE Resolver_resolve_local(rs, expr, expr.name)

(* resolve_function without the restore of current_function on its last     *)
(* line: the function type of the body stays in force after the body.       *)
Resolver_resolve_function_unrestored(rs, params, body, function_type) ==
    LET r1 == Resolver_begin_scope([rs EXCEPT !.current_function = function_type])
        DeclareParams[i \in 0..Len(params)] ==
            IF i = 0 THEN r1
            ELSE Resolver_define(Resolver_declare(DeclareParams[i - 1], params[i]),
                                 params[i])
        r2 == Resolver_resolve(DeclareParams[Len(params)], body, 1)
    IN  IF r2.panic # "" THEN r2 ELSE Resolver_end_scope(r2)

Resolver_resolve_function(rs, params, body, function_type) ==
    LET enclosing_function == rs.current_function
        r1 == Resolver_begin_scope([rs EXCEPT !.current_function = function_type])
        DeclareParams[i \in 0..Len(params)] ==
            IF i = 0 THEN r1
            ELSE Resolver_define(Resolver_declare(DeclareParams[i - 1], params[i]),
                                 params[i])
        r2 == Resolver_resolve(DeclareParams[Len(params)], body, 1)
    IN  IF r2.panic # "" THEN r2
        ELSE [Resolver_end_scope(r2) EXCEPT !.current_function = enclosing_function]

Resolver_visit_block_stmt(rs, stmt) ==
    LET r1 == Resolver_resolve(Resolver_begin_scope(rs), stmt.stmts, 1)
    IN  IF r1.panic # "" THEN r1 ELSE Resolver_end_scope(r1)

(* visit_class_stmt without the restore of current_class on its last line.  *)
Resolver_visit_class_stmt_unrestored(rs, stmt) ==
    LET r1 == Resolver_define(
                  Resolver_declare([rs EXCEPT !.current_class = "Class"], stmt.name),
                  stmt.name)
        r2 == IF stmt.superclass # NoExpr
              THEN Resolver_resolve_expr([r1 EXCEPT !.current_class = "Subclass"],
                                         stmt.superclass)
              ELSE r1
        r3 == IF stmt.superclass # NoExpr
              THEN [Resolver_begin_scope(r2) EXCEPT !.scopes[Len(r2.scopes) + 1] =
                        Insert(EmptyMap, "super", TRUE)]
              ELSE r2
        r4 == [Resolver_begin_scope(r3) EXCEPT !.scopes[Len(r3.scopes) + 1] =
                   Insert(EmptyMap, "this", TRUE)]
        r5 == Resolver_resolve_methods(r4, stmt.methods, 1)
        r6 == IF stmt.superclass # NoExpr THEN Resolver_end_scope(r5) ELSE r5
    IN  IF r1.panic # "" THEN r1
        ELSE IF stmt.superclass # NoExpr /\ stmt.superclass.k = "Variable"
                /\ stmt.superclass.name = stmt.name
        THEN [r1 EXCEPT !.panic = "A class can't inherit from itself."]
        ELSE IF r2.panic # "" THEN r2
        ELSE IF r5.panic # "" THEN r5
        ELSE Resolver_end_scope(r6)

Resolver_visit_class_stmt(rs, stmt) ==
    LET enclosing_class == rs.current_class
        r1 == Resolver_define(
                  Resolver_declare([rs EXCEPT !.current_class = "Class"], stmt.name),
                  stmt.name)
        r2 == IF stmt.superclass # NoExpr
              THEN Resolver_resolve_expr([r1 EXCEPT !.current_class = "Subclass"],
                                         stmt.superclass)
              ELSE r1
        r3 == IF stmt.superclass # NoExpr
              THEN [Resolver_begin_scope(r2) EXCEPT !.scopes[Len(r2.scopes) + 1] =
                        Insert(EmptyMap, "super", TRUE)]
              ELSE r2
        r4 == [Resolver_begin_scope(r3) EXCEPT !.scopes[Len(r3.scopes) + 1] =
                   Insert(EmptyMap, "this", TRUE)]
        r5 == Resolver_resolve_methods(r4, stmt.methods, 1)
        r6 == IF stmt.superclass # NoExpr THEN Resolver_end_scope(r5) ELSE r5
    IN  IF r1.panic # "" THEN r1
        ELSE IF stmt.superclass # NoExpr /\ stmt.superclass.k = "Variable"
                /\ stmt.superclass.name = stmt.name
        THEN [r1 EXCEPT !.panic = "A class can't inherit from itself."]
        ELSE IF r2.panic # "" THEN r2
        ELSE IF r5.panic # "" THEN r5
        ELSE [Resolver_end_scope(r6) EXCEPT !.current_class = enclosing_class]

Resolver_visit_function_stmt(rs, stmt) ==
    Resolver_resolve_function(
        Resolver_define(Resolver_declare(rs, stmt.name), stmt.name),
        stmt.params, stmt.body, "Function")

Resolver_visit_if_stmt(rs, stmt) ==
    LET r1 == Resolver_resolve_stmt(Resolver_resolve_expr(rs, stmt.condition),
                                    stmt.then_branch)
    IN  IF stmt.else_branch # NoStmt
        THEN Resolver_resolve_stmt(r1, stmt.else_branch)
        ELSE r1

Resolver_visit_return_stmt(rs, stmt) ==
    IF rs.current_function = "None"
    THEN [rs EXCEPT !.panic = "Can't return from top-level code."]
    ELSE IF stmt.value # NoExpr
    THEN IF rs.current_function = "Initializer"
         THEN [rs EXCEPT !.panic = "Can't return a value from an initializer."]
         ELSE Resolver_resolve_expr(rs, stmt.value)
    ELSE rs

Resolver_visit_var_stmt(rs, stmt) ==
    LET r1 == Resolver_declare(rs, stmt.name)
        r2 == IF stmt.initializer # NoExpr
              THEN Resolver_resolve_expr(r1, stmt.initializer)
              ELSE r1
    IN  Resolver_define(r2, stmt.name)

Resolver_visit_while_stmt(rs, stmt) ==
    Resolver_resolve_stmt(Resolver_resolve_expr(rs, stmt.condition), stmt.body)

(* Expr::accept_interp with a Resolver as the visitor *)
Resolver_resolve_expr(rs, expr) ==
    IF rs.panic # "" THEN rs
    ELSE CASE expr.k = "Variable" -> Resolver_visit_variable_expr(rs, expr)
           [] expr.k = "Assign" -> Resolver_visit_assign_expr(rs, expr)
           [] expr.k = "Call" -> Resolver_visit_call_expr(rs, expr)
           [] expr.k = "Get" -> Resolver_visit_get_expr(rs, expr)
           [] expr.k = "Binary" -> Resolver_visit_binary_expr(rs, expr)
           [] expr.k = "Logical" -> Resolver_visit_logical_expr(rs, expr)
           [] expr.k = "Set" -> Resolver_visit_set_expr(rs, expr)
           [] expr.k = "Super" -> Resolver_visit_super_expr(rs, expr)
           [] expr.k = "This" -> Resolver_visit_this_expr(rs, expr)
           [] OTHER -> rs

Resolver_resolve_exprs(rs, exprs, i) ==
    IF i > Len(exprs) THEN rs
    ELSE Resolver_resolve_exprs(Resolver_resolve_expr(rs, exprs[i]), exprs, i + 1)

(* Stmt::accept with a Resolver as the visitor *)
Resolver_resolve_stmt(rs, stmt) ==
    IF rs.panic # "" THEN rs
    ELSE CASE stmt.k = "Block" -> Resolver_visit_block_stmt(rs, stmt)
           [] stmt.k = "Class" -> Resolver_visit_class_stmt(rs, stmt)
           [] stmt.k = "Expression" -> Resolver_resolve_expr(rs, stmt.expr)
           [] stmt.k = "Function" -> Resolver_visit_function_stmt(rs, stmt)
           [] stmt.k = "If" -> Resolver_visit_if_stmt(rs, stmt)
           [] stmt.k = "Print" -> Resolver_resolve_expr(rs, stmt.expr)
           [] stmt.k = "Return" -> Resolver_visit_return_stmt(rs, stmt)
           [] stmt.k = "Var" -> Resolver_visit_var_stmt(rs, stmt)
           [] stmt.k = "While" -> Resolver_visit_while_stmt(rs, stmt)

Resolver_resolve(rs, stmts, i) ==
    IF i > Len(stmts) THEN rs
    ELSE Resolver_resolve(Resolver_resolve_stmt(rs, stmts[i]), stmts, i + 1)

(* the method loop of visit_class_stmt *)
Resolver_resolve_methods(rs, methods, i) ==
    IF i > Len(methods) \/ rs.panic # "" THEN rs
    ELSE Resolver_resolve_methods(
             Resolver_resolve_function(rs, methods[i].params, methods[i].body,
                 IF methods[i].name # "init" THEN "Method" ELSE "Initializer"),
             methods, i + 1)

-----------------------------------------------------------------------------
(* Source programs: the statement lists the parser hands to the resolver   *)
(* and to interpret().                                                     *)

MaxArgs == 2

Str(s) == Literal(String(s))
Args(n) == [i \in 1..n |-> Str("arg")]

(* Parser::for_statement: the loop is built from Block and While.  The body *)
(* is wrapped in a block with the increment when there is one, the missing  *)
(* condition is the literal true, and the whole is wrapped in a block with  *)
(* the initializer when there is one.                                       *)
Parser_for_statement(initializer, condition, increment, body) ==
    LET body1 == IF increment # NoExpr
                 THEN Block(<< body, Expression(increment) >>)
                 ELSE body
        body2 == While(IF condition # NoExpr THEN condition
                       ELSE Literal(Boolean(TRUE)),
                       body1)
    IN  IF initializer # NoStmt THEN Block(<< initializer, body2 >>) ELSE body2

Num(i) == Literal(Number(i))

ForInitializer(start) == Num(start)

ForCondition(limit) == Binary(Variable("i", 1), "<", Num(limit), 1)

ForIncrement ==
    Assign("i", 1, Binary(Variable("i", 1), "+", Num(1), 1))

ForBody == PrintStmt(Variable("i", 2))

(* for (var i = start; i < limit; i = i + 1)                               *)
(*   print i;                                                              *)
ForLoop(start, limit) ==
    Parser_for_statement(Var("i", ForInitializer(start)), ForCondition(limit),
                         ForIncrement, ForBody)

(* var a = "global";                                                       *)
(* { fun showA() { print a; } showA(); var a = "block"; showA(); }         *)
ShadowingProgram ==
    << Var("a", Str("global")),
       Block(<< Function("showA", <<>>, << PrintStmt(Variable("a", 3)) >>),
                Expression(Call(Variable("showA", 4), <<>>, 4)),
                Var("a", Str("block")),
                Expression(Call(Variable("showA", 6), <<>>, 6)) >>) >>

(* fun f() { print y; }  fun g() { var y = "local"; f(); }  g();           *)
CallerLocalProgram ==
    << Function("f", <<>>, << PrintStmt(Variable("y", 1)) >>),
       Function("g", <<>>, << Var("y", Str("local")),
                              Expression(Call(Variable("f", 2), <<>>, 2)) >>),
       Expression(Call(Variable("g", 3), <<>>, 3)) >>

(* var h;                                                                  *)
(* { var x = "first"; fun f() { print x; } h = f; { x = "second"; } }      *)
(* h();                                                                    *)
ClosureProgram ==
    << Var("h", NoExpr),
       Block(<< Var("x", Str("first")),
                Function("f", <<>>, << PrintStmt(Variable("x", 2)) >>),
                Expression(Assign("h", 2, Variable("f", 2))),
                Block(<< Expression(Assign("x", 2, Str("second"))) >>) >>),
       Expression(Call(Variable("h", 3), <<>>, 3)) >>

(* { var a = "outer"; { var b = "inner"; print b; } }                      *)
NestedLocalProgram ==
    << Block(<< Var("a", Str("outer")),
                Block(<< Var("b", Str("inner")),
                         PrintStmt(Variable("b", 1)) >>) >>) >>

(* { var a = "outer"; { print a; a = "changed"; } print a; }               *)
OuterAccessProgram ==
    << Block(<< Var("a", Str("outer")),
                Block(<< PrintStmt(Variable("a", 2)),
                         Expression(Assign("a", 3, Str("changed"))) >>),
                PrintStmt(Variable("a", 4)) >>) >>

(* fun g() {}  fun f() { return g(); print "after"; }  f();                *)
ReturnCallProgram ==
    << Function("g", <<>>, <<>>),
       Function("f", <<>>, << Return(Call(Variable("g", 2), <<>>, 2)),
                              PrintStmt(Str("after")) >>),
       Expression(Call(Variable("f", 3), <<>>, 3)) >>

(* fun f() { while (true) { { if (true) return "found"; } print "no"; }    *)
(*           print "no"; }                                                 *)
(* fun n() { if (false) print "no"; else return; print "no"; }             *)
(* print f(); n(); var c = true; while (c) c = false; print "end";         *)
EarlyReturnProgram ==
    << Function("f", <<>>,
           << While(Literal(Boolean(TRUE)),
                  Block(<< Block(<< If(Literal(Boolean(TRUE)),
                                       Return(Str("found")), NoStmt) >>),
                           PrintStmt(Str("no")) >>)),
              PrintStmt(Str("no")) >>),
       Function("n", <<>>,
           << If(Literal(Boolean(FALSE)), PrintStmt(Str("no")), Return(NoExpr)),
              PrintStmt(Str("no")) >>),
       PrintStmt(Call(Variable("f", 3), <<>>, 3)),
       Expression(Call(Variable("n", 4), <<>>, 4)),
       Var("c", Literal(Boolean(TRUE))),
       While(Variable("c", 5), Expression(Assign("c", 5, Literal(Boolean(FALSE))))),
       PrintStmt(Str("end")) >>

(* var a = "global";                                                       *)
(* fun f() { { var b = "inner"; return b; } }                              *)
(* { var b = "block"; class A {} class B < A {} var c = f(); clock(); {} } *)
(* print a;                                                                *)
BlockProgram ==
    << Var("a", Str("global")),
       Function("f", <<>>, << Block(<< Var("b", Str("inner")),
                                       Return(Variable("b", 2)) >>) >>),
       Block(<< Var("b", Str("block")),
                Class("A", NoExpr, <<>>),
                Class("B", Variable("A", 3), <<>>),
                Var("c", Call(Variable("f", 3), <<>>, 3)),
                Expression(Call(Variable("clock", 3), <<>>, 3)),
                Block(<<>>) >>),
       PrintStmt(Variable("a", 4)) >>

(* class Foo { init() { return; } }                                        *)
(* class Bar { init(a) { print "init"; } }                                 *)
(* print Foo(); var foo = Foo(); print foo.init(); print Bar("arg");       *)
InitializerProgram ==
    << Class("Foo", NoExpr, << Function("init", <<>>, << Return(NoExpr) >>) >>),
       Class("Bar", NoExpr,
             << Function("init", <<"a">>, << PrintStmt(Str("init")) >>) >>),
       PrintStmt(Call(Variable("Foo", 3), <<>>, 3)),
       Var("foo", Call(Variable("Foo", 3), <<>>, 3)),
       PrintStmt(Call(Get(Variable("foo", 3), "init", 3), <<>>, 3)),
       PrintStmt(Call(Variable("Bar", 3), Args(1), 3)) >>

(* class C {}  class D { init(a) {} }  fun f(a) {}  print <callee>(n args); *)
ArityProgram(callee, n) ==
    << Class("C", NoExpr, <<>>),
       Class("D", NoExpr, << Function("init", <<"a">>, <<>>) >>),
       Function("f", <<"a">>, <<>>),
       PrintStmt(Call(Variable(callee, 4), Args(n), 4)) >>

Callees == <<"C", "D", "f">>

(* var a; var b; "text"(a = "one", b = "two");                             *)
NotCallableProgram ==
    << Var("a", NoExpr), Var("b", NoExpr),
       Expression(Call(Str("text"),
                       << Assign("a", 3, Str("one")), Assign("b", 3, Str("two")) >>,
                       3)) >>

(* class Foo { init() { this.x = "set"; } }  var foo = Foo();  print foo.x; *)
InitFieldProgram ==
    << Class("Foo", NoExpr,
             << Function("init", <<>>,
                    << Expression(Set(This(1), "x", 1, Str("set"))) >>) >>),
       Var("foo", Call(Variable("Foo", 2), <<>>, 2)),
       PrintStmt(Get(Variable("foo", 3), "x", 3)) >>

(* class Box {}  var a = Box();  var b = a;  a.x = "v";  print b.x;         *)
AliasFieldProgram ==
    << Class("Box", NoExpr, <<>>),
       Var("a", Call(Variable("Box", 2), <<>>, 2)),
       Var("b", Variable("a", 3)),
       Expression(Set(Variable("a", 4), "x", 4, Str("v"))),
       PrintStmt(Get(Variable("b", 5), "x", 5)) >>

(* class A { m() { print "A.m"; } }  class B < A {}  B().m();               *)
InheritedMethodProgram ==
    << Class("A", NoExpr,
             << Function("m", <<>>, << PrintStmt(Str("A.m")) >>) >>),
       Class("B", Variable("A", 2), <<>>),
       Expression(Call(Get(Call(Variable("B", 3), <<>>, 3), "m", 3), <<>>, 3)) >>

(* class A { m() { print "A"; } }                                          *)
(* class B < A { m() { super.m(); print "B"; } }  B().m();                 *)
SuperProgram ==
    << Class("A", NoExpr, << Function("m", <<>>, << PrintStmt(Str("A")) >>) >>),
       Class("B", Variable("A", 2),
             << Function("m", <<>>,
                    << Expression(Call(Super(2, "m"), <<>>, 2)),
                       PrintStmt(Str("B")) >>) >>),
       Expression(Call(Get(Call(Variable("B", 3), <<>>, 3), "m", 3), <<>>, 3)) >>

(* class G { m() { print "G"; } }  class A < G {}                          *)
(* class B < A { m() { super.m(); print "B"; } }  B().m();                 *)
SuperChainProgram ==
    << Class("G", NoExpr, << Function("m", <<>>, << PrintStmt(Str("G")) >>) >>),
       Class("A", Variable("G", 2), <<>>),
       Class("B", Variable("A", 3),
             << Function("m", <<>>,
                    << Expression(Call(Super(3, "m"), <<>>, 3)),
                       PrintStmt(Str("B")) >>) >>),
       Expression(Call(Get(Call(Variable("B", 4), <<>>, 4), "m", 4), <<>>, 4)) >>

(* class P { show() { print this.id; } }                                   *)
(* var a = P(); a.id = "a";  var b = P(); b.id = "b";  a.show(); b.show(); *)
BoundMethodProgram ==
    << Class("P", NoExpr,
             << Function("show", <<>>,
                    << PrintStmt(Get(This(1), "id", 1)) >>) >>),
       Var("a", Call(Variable("P", 2), <<>>, 2)),
       Expression(Set(Variable("a", 3), "id", 3, Str("a"))),
       Var("b", Call(Variable("P", 4), <<>>, 4)),
       Expression(Set(Variable("b", 5), "id", 5, Str("b"))),
       Expression(Call(Get(Variable("a", 6), "show", 6), <<>>, 6)),
       Expression(Call(Get(Variable("b", 7), "show", 7), <<>>, 7)) >>

(* fun one() { print "left"; return 1; }                                   *)
(* fun two() { print "right"; return 2; }                                  *)
(* print one() <operator> two();                                           *)
BinaryProgram(operator) ==
    << Function("one", <<>>, << PrintStmt(Str("left")),
                                Return(Literal(Number(1))) >>),
       Function("two", <<>>, << PrintStmt(Str("right")),
                                Return(Literal(Number(2))) >>),
       PrintStmt(Binary(Call(Variable("one", 3), <<>>, 3), operator,
                        Call(Variable("two", 3), <<>>, 3), 3)) >>

BinaryOperators == <<"-", "<", "==", "+">>

BinaryPrograms == [i \in 1..Len(BinaryOperators) |-> BinaryProgram(BinaryOperators[i])]

(* class Foo {}  var a = Foo();  print a == a;                             *)
InstanceEqualityProgram ==
    << Class("Foo", NoExpr, <<>>),
       Var("a", Call(Variable("Foo", 2), <<>>, 2)),
       PrintStmt(Binary(Variable("a", 3), "==", Variable("a", 3), 3)) >>

(* var x = "bound";  print "before";  return "top";                        *)
TopLevelReturnProgram ==
    << Var("x", Str("bound")), PrintStmt(Str("before")), Return(Str("top")) >>

(* var a = "outer";  { var a = a;  print a; }                              *)
OwnInitializerShadowProgram ==
    << Var("a", Str("outer")),
       Block(<< Var("a", Variable("a", 2)), PrintStmt(Variable("a", 3)) >>) >>

(* { var a = a;  print a; }                                                *)
OwnInitializerBlockProgram ==
    << Block(<< Var("a", Variable("a", 1)), PrintStmt(Variable("a", 2)) >>) >>

(* fun f() { var a = a; }  print "run";                                    *)
OwnInitializerFunctionProgram ==
    << Function("f", <<>>, << Var("a", Variable("a", 1)) >>),
       PrintStmt(Str("run")) >>

(* var a = "outer";  var a = a;  print a;                                  *)
OwnInitializerGlobalProgram ==
    << Var("a", Str("outer")), Var("a", Variable("a", 2)),
       PrintStmt(Variable("a", 3)) >>

OwnInitializerLocalPrograms ==
    { OwnInitializerShadowProgram, OwnInitializerBlockProgram,
      OwnInitializerFunctionProgram }

(* { var a = "first";  var a = "second"; }                                 *)
DuplicateVarProgram ==
    << Block(<< Var("a", Str("first")), Var("a", Str("second")) >>) >>

(* fun f(a) { var a = "local"; }  print "run";                             *)
DuplicateParamLocalProgram ==
    << Function("f", <<"a">>, << Var("a", Str("local")) >>),
       PrintStmt(Str("run")) >>

(* fun f(a, a) {}  print "run";                                            *)
DuplicateParamsProgram ==
    << Function("f", <<"a", "a">>, <<>>), PrintStmt(Str("run")) >>

(* { fun f() {}  fun f() {} }                                              *)
DuplicateFunctionProgram ==
    << Block(<< Function("f", <<>>, <<>>), Function("f", <<>>, <<>>) >>) >>

(* { class A {}  class A {} }                                              *)
DuplicateClassProgram ==
    << Block(<< Class("A", NoExpr, <<>>), Class("A", NoExpr, <<>>) >>) >>

(* var a = "first";  var a = "second";  print a;                           *)
GlobalRedeclareProgram ==
    << Var("a", Str("first")), Var("a", Str("second")),
       PrintStmt(Variable("a", 3)) >>

(* var a = "outer";  { var a = "inner";  print a; }  print a;              *)
NestedRedeclareProgram ==
    << Var("a", Str("outer")),
       Block(<< Var("a", Str("inner")), PrintStmt(Variable("a", 2)) >>),
       PrintStmt(Variable("a", 3)) >>

DuplicatePrograms ==
    { DuplicateVarProgram, DuplicateParamLocalProgram, DuplicateParamsProgram,
      DuplicateFunctionProgram, DuplicateClassProgram }

(* class C { init() { return "v"; } }  print "run";                        *)
InitializerReturnValueProgram ==
    << Class("C", NoExpr,
             << Function("init", <<>>, << Return(Str("v")) >>) >>),
       PrintStmt(Str("run")) >>

(* class C { init() { return; } }  print "run";                            *)
InitializerBareReturnProgram ==
    << Class("C", NoExpr,
             << Function("init", <<>>, << Return(NoExpr) >>) >>),
       PrintStmt(Str("run")) >>

(* class C { init() { fun g() { return "v"; } } }  print "run";            *)
InitializerNestedReturnProgram ==
    << Class("C", NoExpr,
             << Function("init", <<>>,
                    << Function("g", <<>>, << Return(Str("v")) >>) >>) >>),
       PrintStmt(Str("run")) >>

(* class C { init() { fun g() { return "v"; }  return "w"; } }             *)
InitializerReturnAfterNestedProgram ==
    << Class("C", NoExpr,
             << Function("init", <<>>,
                    << Function("g", <<>>, << Return(Str("v")) >>),
                       Return(Str("w")) >>) >>),
       PrintStmt(Str("run")) >>

(* class C { m() { return "v"; } }  print "run";                           *)
MethodReturnValueProgram ==
    << Class("C", NoExpr,
             << Function("m", <<>>, << Return(Str("v")) >>) >>),
       PrintStmt(Str("run")) >>

(* fun f() { return "v"; }  print "run";  return;                          *)
ReturnAfterFunctionProgram ==
    << Function("f", <<>>, << Return(Str("v")) >>),
       PrintStmt(Str("run")),
       Return(NoExpr) >>

(* class A {}  print "run";  print this;                                   *)
ThisTopLevelProgram ==
    << Class("A", NoExpr, <<>>),
       PrintStmt(Str("run")),
       PrintStmt(This(3)) >>

(* class A { m() { this; } }  fun f() { this; }  print "run";              *)
ThisInFunctionProgram ==
    << Class("A", NoExpr,
             << Function("m", <<>>, << Expression(This(1)) >>) >>),
       Function("f", <<>>, << Expression(This(2)) >>),
       PrintStmt(Str("run")) >>

(* class A { m() { fun g() { this; } } }  print "run";                     *)
ThisInNestedFunctionProgram ==
    << Class("A", NoExpr,
             << Function("m", <<>>,
                    << Function("g", <<>>, << Expression(This(1)) >>) >>) >>),
       PrintStmt(Str("run")) >>

(* class A {}  class B < A {}  print "run";  super.m;                      *)
SuperTopLevelProgram ==
    << Class("A", NoExpr, <<>>),
       Class("B", Variable("A", 2), <<>>),
       PrintStmt(Str("run")),
       Expression(Super(4, "m")) >>

(* class A {}  class B < A { m() { super.m; } }  fun f() { super.m; }      *)
SuperInFunctionProgram ==
    << Class("A", NoExpr, <<>>),
       Class("B", Variable("A", 2),
             << Function("m", <<>>, << Expression(Super(2, "m")) >>) >>),
       Function("f", <<>>, << Expression(Super(3, "m")) >>),
       PrintStmt(Str("run")) >>

(* class A { m() { super.m; } }  print "run";                              *)
SuperNoSuperclassProgram ==
    << Class("A", NoExpr,
             << Function("m", <<>>, << Expression(Super(1, "m")) >>) >>),
       PrintStmt(Str("run")) >>

(* class A {}  class B < A { m() { class C { n() { super.n; } } } }        *)
SuperInNestedClassProgram ==
    << Class("A", NoExpr, <<>>),
       Class("B", Variable("A", 2),
             << Function("m", <<>>,
                    << Class("C", NoExpr,
                             << Function("n", <<>>,
                                    << Expression(Super(2, "n")) >>) >>) >>) >>),
       PrintStmt(Str("run")) >>

(* class A {}  class B < A { m() { class C {}  super.m; } }  print "run";  *)
SuperAfterNestedClassProgram ==
    << Class("A", NoExpr, <<>>),
       Class("B", Variable("A", 2),
             << Function("m", <<>>,
                    << Class("C", NoExpr, <<>>),
                       Expression(Super(2, "m")) >>) >>),
       PrintStmt(Str("run")) >>

(* var a;  print a;                                                        *)
UninitializedGlobalProgram ==
    << Var("a", NoExpr), PrintStmt(Variable("a", 2)) >>

(* { var a;  print a; }                                                    *)
UninitializedLocalProgram ==
    << Block(<< Var("a", NoExpr), PrintStmt(Variable("a", 2)) >>) >>

(* var a = "before";  a = "after";  print a;                               *)
AssignGlobalProgram ==
    << Var("a", Str("before")),
       Expression(Assign("a", 2, Str("after"))),
       PrintStmt(Variable("a", 3)) >>

(* var a = "before";  { { a = "after"; } }  print a;                       *)
AssignGlobalFromBlockProgram ==
    << Var("a", Str("before")),
       Block(<< Block(<< Expression(Assign("a", 2, Str("after"))) >>) >>),
       PrintStmt(Variable("a", 3)) >>

(* var a = "global";                                                       *)
(* { var a = "outer";  { a = "inner";  print a; }  print a; }  print a;    *)
AssignEnclosingProgram ==
    << Var("a", Str("global")),
       Block(<< Var("a", Str("outer")),
                Block(<< Expression(Assign("a", 3, Str("inner"))),
                         PrintStmt(Variable("a", 4)) >>),
                PrintStmt(Variable("a", 5)) >>),
       PrintStmt(Variable("a", 6)) >>

(* print "run";  unset = "v";  print unset;                                *)
AssignUndefinedProgram ==
    << PrintStmt(Str("run")),
       Expression(Assign("unset", 2, Str("v"))),
       PrintStmt(Variable("unset", 3)) >>

(* var a = "kept";  { var b = "kept";  { unset = "v"; } }                  *)
AssignUndefinedInBlockProgram ==
    << Var("a", Str("kept")),
       Block(<< Var("b", Str("kept")),
                Block(<< Expression(Assign("unset", 3, Str("v"))) >>) >>) >>

(* { var a = "before";  print a = "after";  print a;  { print a; } }       *)
AssignLocalProgram ==
    << Block(<< Var("a", Str("before")),
                PrintStmt(Assign("a", 2, Str("after"))),
                PrintStmt(Variable("a", 3)),
                Block(<< PrintStmt(Variable("a", 4)) >>) >>) >>

(* { var a = "before";  { { print a = "after";  print a; } }  print a; }   *)
AssignOuterLocalProgram ==
    << Block(<< Var("a", Str("before")),
                Block(<< Block(<< PrintStmt(Assign("a", 2, Str("after"))),
                                  PrintStmt(Variable("a", 3)) >>) >>),
                PrintStmt(Variable("a", 4)) >>) >>

(* for (var i = 0; i < 3; i = i + 1) print i;                              *)
ForProgram == << ForLoop(0, 3) >>

(* for (var i = 3; i < 2; i = i + 1) print i;  print "end";                *)
ForNeverProgram == << ForLoop(3, 2), PrintStmt(Str("end")) >>

(* var i = "before";  for (var i = 0; i < 2; i = i + 1) print i;  print i; *)
ForShadowGlobalProgram ==
    << Var("i", Str("before")), ForLoop(0, 2), PrintStmt(Variable("i", 3)) >>

(* for (var i = 0; i < 1; i = i + 1) print i;  print i;                    *)
ForUnboundAfterProgram ==
    << ForLoop(0, 1), PrintStmt(Variable("i", 3)) >>

(* { var i = "before";                                                     *)
(*   for (var i = 0; i < 2; i = i + 1) print i;                            *)
(*   print i; }                                                            *)
ForShadowLocalProgram ==
    << Block(<< Var("i", Str("before")), ForLoop(0, 2),
                PrintStmt(Variable("i", 3)) >>) >>

(* { for (var i = 0; i < 3; i = i + 1) print i; }                          *)
ForInBlockProgram == << Block(<< ForLoop(0, 3) >>) >>

(* { var a = "one";  print a; }                                            *)
ShallowOccurrenceProgram ==
    << Block(<< Var("a", Str("one")), PrintStmt(Variable("a", 1)) >>) >>

(* { { var a = "two";  { print a; } } }                                    *)
DeepOccurrenceProgram ==
    << Block(<< Block(<< Var("a", Str("two")),
                         Block(<< PrintStmt(Variable("a", 1)) >>) >>) >>) >>

(* { var a = "one";  print a; }  { { var a = "two";  { print a; } } }      *)
(* all on line 1                                                           *)
SameLineOccurrencesProgram ==
    ShallowOccurrenceProgram \o DeepOccurrenceProgram

(* class A {}  class B < A {}  var x = "v";  print x;                      *)
SubclassThenVarProgram ==
    << Class("A", NoExpr, <<>>),
       Class("B", Variable("A", 2), <<>>),
       Var("x", Str("v")),
       PrintStmt(Variable("x", 4)) >>

(* class A {}  var x = "v";  print x;                                      *)
ClassThenVarProgram ==
    << Class("A", NoExpr, <<>>),
       Var("x", Str("v")),
       PrintStmt(Variable("x", 3)) >>

FixedPrograms ==
    << ShadowingProgram, CallerLocalProgram, ClosureProgram, NestedLocalProgram,
       OuterAccessProgram, ReturnCallProgram, EarlyReturnProgram, BlockProgram,
       InitializerProgram, NotCallableProgram, InitFieldProgram,
       AliasFieldProgram, InheritedMethodProgram, SuperProgram,
       SuperChainProgram, BoundMethodProgram, InstanceEqualityProgram,
       TopLevelReturnProgram, OwnInitializerShadowProgram,
       OwnInitializerBlockProgram, OwnInitializerFunctionProgram,
       OwnInitializerGlobalProgram, DuplicateVarProgram,
       DuplicateParamLocalProgram, DuplicateParamsProgram,
       DuplicateFunctionProgram, DuplicateClassProgram,
       GlobalRedeclareProgram, NestedRedeclareProgram,
       InitializerReturnValueProgram, InitializerBareReturnProgram,
       InitializerNestedReturnProgram, InitializerReturnAfterNestedProgram,
       MethodReturnValueProgram, ReturnAfterFunctionProgram,
       ThisTopLevelProgram, ThisInFunctionProgram,
       ThisInNestedFunctionProgram, SuperTopLevelProgram,
       SuperInFunctionProgram, SuperNoSuperclassProgram,
       SuperInNestedClassProgram, SuperAfterNestedClassProgram,
       UninitializedGlobalProgram, UninitializedLocalProgram,
       AssignGlobalProgram, AssignGlobalFromBlockProgram,
       AssignEnclosingProgram, AssignUndefinedProgram,
       AssignUndefinedInBlockProgram, AssignLocalProgram,
       AssignOuterLocalProgram, ForProgram, ForNeverProgram,
       ForShadowGlobalProgram, ForUnboundAfterProgram, ForShadowLocalProgram,
       ForInBlockProgram, ShallowOccurrenceProgram, DeepOccurrenceProgram,
       SameLineOccurrencesProgram, SubclassThenVarProgram,
       ClassThenVarProgram >>

ArityPrograms ==
    [i \in 1..(Len(Callees) * (MaxArgs + 1)) |->
        ArityProgram(Callees[((i - 1) \div (MaxArgs + 1)) + 1],
                     (i - 1) % (MaxArgs + 1))]

(* class C {}  print <left> <operator> C();                                *)
LogicalProgram(left, operator) ==
    << Class("C", NoExpr, <<>>),
       PrintStmt(Logical(Literal(left), operator,
                         Call(Variable("C", 2), <<>>, 2), 2)) >>

LogicalOperands ==
    << Nil, Boolean(FALSE), Boolean(TRUE), Number(0), String(""), String("left") >>

LogicalOperators == <<"and", "or">>

LogicalPrograms ==
    [i \in 1..(Len(LogicalOperands) * Len(LogicalOperators)) |->
        LogicalProgram(LogicalOperands[((i - 1) \div Len(LogicalOperators)) + 1],
                       LogicalOperators[((i - 1) % Len(LogicalOperators)) + 1])]

Programs == FixedPrograms \o ArityPrograms \o LogicalPrograms \o BinaryPrograms

ProgramIndex(p) == CHOOSE i \in 1..Len(Programs) : Programs[i] = p

(* A source text that the parser rejects: it has no statement list. *)
Unparsable == 0

statements == IF program = Unparsable THEN <<>> ELSE Programs[program]

-----------------------------------------------------------------------------
(* The object store: the four heaps together.  Rc::new appends a cell.     *)

Store == [envs |-> envs, funs |-> funs, classes |-> classes,
          instances |-> instances]

(* Interpreter::is_truthy *)
Interpreter_is_truthy(object) ==
    CASE object.t = "bool" -> object.n = 1
      [] object.t = "nil" -> FALSE
      [] object.t = "none" -> FALSE
      [] OTHER -> TRUE

(* f64::to_string of an integral value, then trim_end_matches(".0") *)
Digit(d) ==
    CASE d = 0 -> "0" [] d = 1 -> "1" [] d = 2 -> "2" [] d = 3 -> "3"
      [] d = 4 -> "4" [] d = 5 -> "5" [] d = 6 -> "6" [] d = 7 -> "7"
      [] d = 8 -> "8" [] OTHER -> "9"

RECURSIVE Digits(_)
Digits(i) == IF i < 10 THEN Digit(i) ELSE Digits(i \div 10) \o Digit(i % 10)

(* LoxFunction::to_string: "fn name(p1, p2)" *)
RECURSIVE ParamString(_, _)
ParamString(params, i) ==
    IF i > Len(params) THEN ""
    ELSE params[i] \o (IF i < Len(params) THEN ", " ELSE "")
         \o ParamString(params, i + 1)

LoxFunction_to_string(f) ==
    "fn " \o f.declaration.name \o "(" \o ParamString(f.declaration.params, 1)
    \o ")"

(* Interpreter::stringify *)
Interpreter_stringify(st, value) ==
    CASE value.t = "number" ->
             IF value.n < 0 THEN "-" \o Digits(-value.n) ELSE Digits(value.n)
      [] value.t = "bool" -> IF value.n = 1 THEN "true" ELSE "false"
      [] value.t = "string" -> value.s
      [] value.t = "function" -> LoxFunction_to_string(st.funs[value.n])
      [] value.t = "class" -> st.classes[value.n].name
      [] value.t = "native" -> "<native fn>"
      [] value.t = "instance" ->
             st.classes[st.instances[value.n].klass].declaration.name
             \o " instance"
      [] OTHER -> "nil"

(* LoxFunction::new *)
LoxFunction_new(declaration, closure, is_initializer) ==
    [arity |-> Len(declaration.params), declaration |-> declaration,
     closure |-> closure, is_initializer |-> is_initializer]

(* Rc::new(RefCell::new(self.environment.borrow_mut().clone())): a new     *)
(* cell holding a copy of frame e (its values copied, its enclosing        *)
(* pointer shared).                                                        *)
CloneEnvironment(st, e) == [st EXCEPT !.envs = Append(st.envs, st.envs[e])]

(* LoxFunction::bind: the LoxInstance passed by value goes into a new Rc   *)
(* cell; `this` is defined to it in a new environment enclosed by the      *)
(* method's closure.  The result is the store and the new function.        *)
LoxFunction_bind(st, f, instance) ==
    LET i == Len(st.instances) + 1
        e == Len(st.envs) + 1
        environment_ == Environment_define(
                            Append(st.envs, Environment_new(st.funs[f].closure)),
                            e, "this", Instance(i))
        function == LoxFunction_new(st.funs[f].declaration, e,
                                    st.funs[f].is_initializer)
    IN  [st |-> [st EXCEPT !.instances = Append(st.instances, instance),
                           !.envs = environment_,
                           !.funs = Append(st.funs, function)],
         function |-> Len(st.funs) + 1]

(* LoxClass::find_method *)
LoxClass_find_method(st, c, name) ==
    IF name \in DOMAIN st.classes[c].methods
    THEN st.classes[c].methods[name]
    ELSE 0

(* LoxClass::arity without the initializer lookup: the variant C10 is      *)
(* tested against.                                                         *)
LoxClass_arity_without_init(st, c) == 0

(* LoxClass::arity *)
LoxClass_arity(st, c) ==
    LET initializer == LoxClass_find_method(st, c, "init")
    IN  IF initializer # 0 THEN st.funs[initializer].arity ELSE 0

(* Callable::arity, dispatched on the callable's type *)
Callable_arity(st, callable) ==
    CASE callable.t = "function" -> st.funs[callable.n].arity
      [] callable.t = "class" -> LoxClass_arity(st, callable.n)
      [] callable.t = "native" -> 0

(* LoxFunction::sync_closure_with_interpreter_env *)
LoxFunction_sync_closure_with_interpreter_env(heap, closure, interpreter_env) ==
    [heap EXCEPT ![interpreter_env].values =
        [x \in DOMAIN heap[interpreter_env].values \cup DOMAIN heap[closure].values |->
            IF x \in DOMAIN heap[interpreter_env].values
            THEN heap[interpreter_env].values[x]
            ELSE heap[closure].values[x]]]

(* LoxFunction::call without its is_initializer branches: the variant C9   *)
(* is tested against.                                                      *)
LoxFunction_call_return_ignoring_initializer(st, f, ret) ==
    [panic |-> "", value |-> IF ret.some THEN ret.value ELSE None, frame |-> 0]

(* The end of LoxFunction::call: what the call returns for the signal ret  *)
(* that execute_function_block produced.                                   *)
LoxFunction_call_return(st, f, ret) ==
    IF st.funs[f].is_initializer
    THEN Environment_get_at(st.envs, st.funs[f].closure, 0, "this")
    ELSE [panic |-> "", value |-> IF ret.some THEN ret.value ELSE None,
          frame |-> 0]

(* Interpreter::lookup_variable *)
Interpreter_lookup_variable(map, heap, env, expr) ==
    LET distance == LocalsGet(map, expr)
    IN  IF distance # -1
        THEN Environment_get_at(heap, env, distance, expr.name)
        ELSE Environment_get(heap, env, expr.name)

-----------------------------------------------------------------------------
(* The machine.  ctl.m is "idle" (between top-level statements), "execute" *)
(* (Interpreter::execute is entered with statement ctl.node), "evaluate"   *)
(* (Interpreter::evaluate is entered with expression ctl.node), "value"    *)
(* (evaluate returned the Option<Value> ctl.value), "result" (execute      *)
(* returned the Option<ReturnValue> ctl.ret) or "call" (visit_call_expr    *)
(* holds the callee and all arguments).                                    *)

Idle == [m |-> "idle", node |-> NoExpr, value |-> None, ret |-> NoReturn]
Execute(stmt) == [m |-> "execute", node |-> stmt, value |-> None, ret |-> NoReturn]
Evaluate(expr) == [m |-> "evaluate", node |-> expr, value |-> None, ret |-> NoReturn]
Returned(value) == [m |-> "value", node |-> NoExpr, value |-> value, ret |-> NoReturn]
Result(ret) == [m |-> "result", node |-> NoExpr, value |-> None, ret |-> ret]
Invoke == [m |-> "call", node |-> NoExpr, value |-> None, ret |-> NoReturn]

globals == 1

MaxClock == 1

(* std::process::exit(75) *)
RuntimeExitCode == 75

NoAccess == [op |-> "none", env |-> 0, distance |-> 0, name |-> "", frame |-> 0,
             target |-> 0]
NoBlock == [entered |-> 0, keys_before |-> {}, after |-> 0, keys_after |-> {},
            returned |-> FALSE]
NoCall == [callee |-> None, fn |-> 0, nargs |-> 0, outcome |-> "none",
           value |-> None, inner |-> None, ret |-> NoReturn, instance |-> 0,
           before |-> 0]

runvars == <<program, locals, resolve_log>>
exitvars == <<had_runtime_error, exit_code>>
heapvars == <<envs, funs, classes, instances>>
iovars == <<output, stderr>>
histvars == <<last_access, return_pending, block_entries, last_block, last_call>>

Running == status = "interpret"
Top == Last(kont)
Began(expr) == [expr |-> expr, depth |-> Len(kont)]
Executing(kind) == Running /\ ctl.m = "execute" /\ ctl.node.k = kind
Evaluating(kind) == Running /\ ctl.m = "evaluate" /\ ctl.node.k = kind
ValueFor(kind) == Running /\ ctl.m = "value" /\ kont # <<>> /\ Top.k = kind
ResultFor(kind) == Running /\ ctl.m = "result" /\ kont # <<>> /\ Top.k = kind

SetStore(st) ==
    /\ envs' = st.envs
    /\ funs' = st.funs
    /\ classes' = st.classes
    /\ instances' = st.instances

(* The names that the programs assign to or declare as classes. *)
AssignedNames ==
    {"a", "b", "c", "h", "i", "x", "unset",
     "A", "B", "Bar", "Box", "C", "D", "Foo", "G", "P"}

(* The messages that reach panic! through main.rs runtime_error, which     *)
(* sets HAD_RUNTIME_ERROR first; the other panics (expect, unwrap, panic!  *)
(* in the visitors) leave the flag alone.                                  *)
ArityMessage(arity, n) ==
    "Expected " \o Digits(arity) \o " arguments but got " \o Digits(n) \o "."

RuntimeErrorMessages ==
    {"Variable not found", "Undefined property.",
     "Only instances have properties.", "Can only call functions and classes",
     "Operand must be a number"}
    \cup {ArityMessage(arity, n) : arity \in 0..9, n \in 0..9}
    \cup {UndefinedVariable(name) : name \in AssignedNames}

(* The exit status of a process whose main thread panicked: 101 when the   *)
(* panic unwinds, 134 (SIGABRT) when the build aborts on panic.            *)
PanicExitCodes == {101, 134}

(* runtime_error / panic!: the flag, and the process ending where it stands *)
Panicked(message, by_runtime_error) ==
    /\ status' = "panic"
    /\ panic_message' = message
    /\ had_runtime_error' = (had_runtime_error \/ by_runtime_error)
    /\ exit_code' \in PanicExitCodes

PanicWith(message) == Panicked(message, message \in RuntimeErrorMessages)

(* panic!: the process ends where it stands *)
Abort(message) ==
    /\ PanicWith(message)
    /\ UNCHANGED <<runvars, heapvars, iovars, histvars, environment, ip, ctl, kont>>

(* Interpreter::new; main.rs run() up to the resolver *)
Init ==
    /\ program \in {Unparsable} \cup (1..Len(Programs))
    /\ status = "start"
    /\ had_runtime_error = FALSE
    /\ exit_code = -1
    /\ panic_message = ""
    /\ locals = <<>>
    /\ resolve_log = <<>>
    /\ envs = << Environment_define(<<Environment_new(0)>>, 1, "clock",
                                    CallableClock)[1] >>
    /\ funs = <<>>
    /\ classes = <<>>
    /\ instances = <<>>
    /\ environment = globals
    /\ ip = 1
    /\ ctl = Idle
    /\ kont = <<>>
    /\ output = <<>>
    /\ stderr = 0
    /\ last_access = NoAccess
    /\ return_pending = FALSE
    /\ block_entries = <<>>
    /\ last_block = NoBlock
    /\ last_call = NoCall
    /\ evaluated = <<>>

(* run_file, and run() up to the resolver: the exit on a set runtime-error *)
(* flag, the scanner and the parser (whose errors go through report, which *)
(* sets HAD_ERROR and panics).                                             *)
run_file ==
    /\ status = "start"
    /\ IF had_runtime_error
       THEN /\ status' = "exit"
            /\ exit_code' = RuntimeExitCode
            /\ UNCHANGED <<panic_message, had_runtime_error>>
       ELSE IF program = Unparsable
       THEN Panicked("Error", FALSE)
       ELSE /\ status' = "resolve"
            /\ UNCHANGED <<panic_message, exitvars>>
    /\ UNCHANGED <<runvars, heapvars, iovars, histvars, environment, ip, ctl,
                   kont, evaluated>>

(* run() going on to interpret whatever the resolver found: the variant    *)
(* C19 is tested against.                                                  *)
run_resolve_then_interpret ==
    /\ status = "resolve"
    /\ LET rs == Resolver_resolve(Resolver_new, statements, 1)
       IN  /\ resolve_log' = rs.log
           /\ locals' = rs.locals
    /\ status' = "interpret"
    /\ UNCHANGED <<program, panic_message, exitvars, heapvars, iovars, histvars,
                   environment, ip, ctl, kont, evaluated>>

(* run(): resolver.resolve(statements.clone()) *)
run_resolve ==
    /\ status = "resolve"
    /\ LET rs == Resolver_resolve(Resolver_new, statements, 1)
       IN  /\ resolve_log' = rs.log
           /\ locals' = rs.locals
           /\ IF rs.panic # "" THEN Panicked(rs.panic, FALSE)
              ELSE /\ status' = "interpret"
                   /\ UNCHANGED <<panic_message, exitvars>>
    /\ UNCHANGED <<program, heapvars, iovars, histvars,
                   environment, ip, ctl, kont, evaluated>>

(* Interpreter::interpret: the loop over the top-level statements *)
Interpreter_interpret ==
    /\ Running
    /\ kont = <<>>
    /\ ctl.m \in {"idle", "result"}
    /\ IF (ctl.m = "result" /\ ctl.ret.some) \/ ip > Len(statements)
       THEN /\ status' = "done"
            /\ exit_code' = 0
            /\ ctl' = Idle
            /\ ip' = ip
       ELSE /\ status' = status
            /\ exit_code' = exit_code
            /\ ctl' = Execute(statements[ip])
            /\ ip' = ip + 1
    /\ UNCHANGED <<runvars, heapvars, iovars, histvars, environment, kont,
                   panic_message, had_runtime_error, evaluated>>

(* execute_block restoring the environment on normal completion only: the *)
(* variant C8 is tested against.                                           *)
Interpreter_execute_block_restore_unless_returning(previous, current, ret) ==
    IF ret.some THEN current ELSE previous

(* execute_block lines 627 and 636: self.environment = previous *)
Interpreter_execute_block_restore(previous, current, ret) == previous

(* visit_block_stmt, and execute_block up to its first statement *)
Interpreter_visit_block_stmt ==
    /\ Executing("Block")
    /\ UNCHANGED evaluated
    /\ UNCHANGED exitvars
    /\ LET new_environment == Len(envs) + 1
       IN  /\ envs' = Append(envs, Environment_new(environment))
           /\ environment' = new_environment
           /\ kont' = Append(kont, [k |-> "Block", stmts |-> ctl.node.stmts,
                                    i |-> IF ctl.node.stmts = <<>> THEN 0 ELSE 1,
                                    previous |-> environment])
           /\ ctl' = IF ctl.node.stmts = <<>> THEN Result(NoReturn)
                     ELSE Execute(ctl.node.stmts[1])
           /\ block_entries' = Append(block_entries,
                  [env |-> environment, keys |-> DOMAIN envs[environment].values])
    /\ UNCHANGED <<runvars, funs, classes, instances, iovars, ip, status,
                   panic_message, last_access, return_pending, last_block,
                   last_call>>

(* execute_block: a statement of the block returned *)
Interpreter_execute_block ==
    /\ ResultFor("Block")
    /\ UNCHANGED evaluated
    /\ UNCHANGED exitvars
    /\ IF ctl.ret.some \/ Top.i >= Len(Top.stmts)
       THEN /\ environment' = Interpreter_execute_block_restore(
                                  Top.previous, environment, ctl.ret)
            /\ kont' = Pop(kont)
            /\ ctl' = Result(ctl.ret)
            /\ block_entries' = Pop(block_entries)
            /\ last_block' =
                   [entered |-> Last(block_entries).env,
                    keys_before |-> Last(block_entries).keys,
                    after |-> environment',
                    keys_after |-> DOMAIN envs[Last(block_entries).env].values,
                    returned |-> ctl.ret.some]
       ELSE /\ environment' = environment
            /\ kont' = [kont EXCEPT ![Len(kont)].i = Top.i + 1]
            /\ ctl' = Execute(Top.stmts[Top.i + 1])
            /\ UNCHANGED <<block_entries, last_block>>
    /\ UNCHANGED <<runvars, heapvars, iovars, ip, status, panic_message,
                   last_access, return_pending, last_call>>

(* visit_expression_stmt *)
Interpreter_visit_expression_stmt ==
    /\ Executing("Expression")
    /\ UNCHANGED evaluated
    /\ UNCHANGED exitvars
    /\ kont' = Append(kont, [k |-> "Expression"])
    /\ ctl' = Evaluate(ctl.node.expr)
    /\ UNCHANGED <<runvars, heapvars, iovars, histvars, environment, ip, status,
                   panic_message>>

Interpreter_visit_expression_stmt_end ==
    /\ ValueFor("Expression")
    /\ UNCHANGED evaluated
    /\ UNCHANGED exitvars
    /\ kont' = Pop(kont)
    /\ ctl' = Result(NoReturn)
    /\ UNCHANGED <<runvars, heapvars, iovars, histvars, environment, ip, status,
                   panic_message>>

(* visit_function_stmt *)
Interpreter_visit_function_stmt ==
    /\ Executing("Function")
    /\ UNCHANGED evaluated
    /\ UNCHANGED exitvars
    /\ LET st == CloneEnvironment(Store, environment)
           function == LoxFunction_new(ctl.node, Len(st.envs), FALSE)
       IN  /\ funs' = Append(funs, function)
           /\ envs' = Environment_define(st.envs, environment, ctl.node.name,
                                         CallableFunction(Len(funs) + 1))
    /\ ctl' = Result(NoReturn)
    /\ UNCHANGED <<runvars, classes, instances, iovars, histvars, environment,
                   ip, status, panic_message, kont>>

(* visit_if_stmt *)
Interpreter_visit_if_stmt ==
    /\ Executing("If")
    /\ UNCHANGED evaluated
    /\ UNCHANGED exitvars
    /\ kont' = Append(kont, [k |-> "If", then_branch |-> ctl.node.then_branch,
                             else_branch |-> ctl.node.else_branch])
    /\ ctl' = Evaluate(ctl.node.condition)
    /\ UNCHANGED <<runvars, heapvars, iovars, histvars, environment, ip, status,
                   panic_message>>

Interpreter_visit_if_stmt_branch ==
    /\ ValueFor("If")
    /\ UNCHANGED evaluated
    /\ UNCHANGED exitvars
    /\ kont' = Pop(kont)
    /\ ctl' = IF Interpreter_is_truthy(ctl.value) THEN Execute(Top.then_branch)
              ELSE IF Top.else_branch # NoStmt THEN Execute(Top.else_branch)
              ELSE Result(NoReturn)
    /\ UNCHANGED <<runvars, heapvars, iovars, histvars, environment, ip, status,
                   panic_message>>

(* visit_print_stmt *)
Interpreter_visit_print_stmt ==
    /\ Executing("Print")
    /\ UNCHANGED evaluated
    /\ UNCHANGED exitvars
    /\ kont' = Append(kont, [k |-> "Print"])
    /\ ctl' = Evaluate(ctl.node.expr)
    /\ UNCHANGED <<runvars, heapvars, iovars, histvars, environment, ip, status,
                   panic_message>>

Interpreter_visit_print_stmt_write ==
    /\ ValueFor("Print")
    /\ UNCHANGED evaluated
    /\ UNCHANGED exitvars
    /\ kont' = Pop(kont)
    /\ ctl' = Result(NoReturn)
    /\ IF ctl.value # None
       THEN /\ output' = Append(output, Interpreter_stringify(Store, ctl.value))
            /\ stderr' = stderr
       ELSE /\ output' = output
            /\ stderr' = stderr + 1
    /\ UNCHANGED <<runvars, heapvars, histvars, environment, ip, status,
                   panic_message>>

(* visit_return_stmt *)
Interpreter_visit_return_stmt ==
    /\ Executing("Return")
    /\ UNCHANGED evaluated
    /\ UNCHANGED exitvars
    /\ IF ctl.node.value # NoExpr
       THEN /\ kont' = Append(kont, [k |-> "Return"])
            /\ ctl' = Evaluate(ctl.node.value)
            /\ return_pending' = return_pending
       ELSE /\ kont' = kont
            /\ ctl' = Result(ReturnValue(Nil))
            /\ return_pending' = TRUE
    /\ UNCHANGED <<runvars, heapvars, iovars, environment, ip, status,
                   panic_message, last_access, block_entries, last_block,
                   last_call>>

(* visit_return_stmt: Some(ReturnValue::new(return_value?)) *)
Interpreter_visit_return_stmt_value ==
    /\ ValueFor("Return")
    /\ UNCHANGED evaluated
    /\ UNCHANGED exitvars
    /\ kont' = Pop(kont)
    /\ ctl' = IF ctl.value # None THEN Result(ReturnValue(ctl.value))
              ELSE Result(NoReturn)
    /\ return_pending' = TRUE
    /\ UNCHANGED <<runvars, heapvars, iovars, environment, ip, status,
                   panic_message, last_access, block_entries, last_block,
                   last_call>>

(* visit_var_stmt *)
Interpreter_visit_var_stmt ==
    /\ Executing("Var")
    /\ UNCHANGED evaluated
    /\ UNCHANGED exitvars
    /\ IF ctl.node.initializer # NoExpr
       THEN /\ kont' = Append(kont, [k |-> "Var", name |-> ctl.node.name])
            /\ ctl' = Evaluate(ctl.node.initializer)
            /\ envs' = envs
       ELSE /\ kont' = kont
            /\ ctl' = Result(NoReturn)
            /\ envs' = Environment_define(envs, environment, ctl.node.name, None)
    /\ UNCHANGED <<runvars, funs, classes, instances, iovars, histvars,
                   environment, ip, status, panic_message>>

Interpreter_visit_var_stmt_define ==
    /\ ValueFor("Var")
    /\ UNCHANGED evaluated
    /\ UNCHANGED exitvars
    /\ kont' = Pop(kont)
    /\ ctl' = Result(NoReturn)
    /\ envs' = Environment_define(envs, environment, Top.name, ctl.value)
    /\ UNCHANGED <<runvars, funs, classes, instances, iovars, histvars,
                   environment, ip, status, panic_message>>

(* visit_while_stmt *)
Interpreter_visit_while_stmt ==
    /\ Executing("While")
    /\ UNCHANGED evaluated
    /\ UNCHANGED exitvars
    /\ kont' = Append(kont, [k |-> "While", condition |-> ctl.node.condition,
                             body |-> ctl.node.body,
                             previous_environment |-> environment])
    /\ ctl' = Evaluate(ctl.node.condition)
    /\ UNCHANGED <<runvars, heapvars, iovars, histvars, environment, ip, status,
                   panic_message>>

Interpreter_visit_while_stmt_condition ==
    /\ ValueFor("While")
    /\ UNCHANGED evaluated
    /\ UNCHANGED exitvars
    /\ IF Interpreter_is_truthy(ctl.value)
       THEN /\ kont' = kont
            /\ ctl' = Execute(Top.body)
            /\ environment' = environment
       ELSE /\ kont' = Pop(kont)
            /\ ctl' = Result(NoReturn)
            /\ environment' = Top.previous_environment
    /\ UNCHANGED <<runvars, heapvars, iovars, histvars, ip, status,
                   panic_message>>

Interpreter_visit_while_stmt_body ==
    /\ ResultFor("While")
    /\ UNCHANGED evaluated
    /\ UNCHANGED exitvars
    /\ IF ctl.ret.some
       THEN /\ kont' = Pop(kont)
            /\ ctl' = Result(ctl.ret)
            /\ environment' = Top.previous_environment
       ELSE /\ kont' = kont
            /\ ctl' = Evaluate(Top.condition)
            /\ environment' = environment
    /\ UNCHANGED <<runvars, heapvars, iovars, histvars, ip, status,
                   panic_message>>

(* visit_class_stmt, the loop over the methods: each method becomes a      *)
(* LoxFunction whose closure is a fresh copy of the current frame.         *)
RECURSIVE ClassMethods(_, _, _, _, _)
ClassMethods(st, env, methods, i, meths) ==
    IF i > Len(methods) THEN [st |-> st, meths |-> meths]
    ELSE LET s1 == CloneEnvironment(st, env)
             function == LoxFunction_new(methods[i], Len(s1.envs),
                                         methods[i].name = "init")
             s2 == [s1 EXCEPT !.funs = Append(s1.funs, function)]
         IN  ClassMethods(s2, env, methods, i + 1,
                          Insert(meths, methods[i].name, Len(s2.funs)))

(* LoxClass::new *)
LoxClass_new(methods, declaration, closure, class_name, superclass) ==
    [arity |-> 0, declaration |-> declaration, closure |-> closure,
     methods |-> methods, name |-> class_name, superclass |-> superclass]

(* visit_class_stmt from the definition of the name on; supclass is the    *)
(* evaluated superclass (None without one).  The result is the store and   *)
(* the interpreter's environment pointer afterwards.                       *)
Interpreter_define_class(st, env, stmt, supclass) ==
    LET s1 == [st EXCEPT !.envs = Environment_define(st.envs, env, stmt.name, None)]
        env2 == IF stmt.superclass # NoExpr THEN Len(s1.envs) + 1 ELSE env
        s2 == IF stmt.superclass # NoExpr
              THEN [s1 EXCEPT !.envs = Environment_define(
                        Append(s1.envs, Environment_new(env)), env2, "super",
                        supclass)]
              ELSE s1
        m == ClassMethods(s2, env2, stmt.methods, 1, EmptyMap)
        s3 == CloneEnvironment(m.st, env2)
        klass == LoxClass_new(m.meths, stmt, Len(s3.envs), stmt.name,
                              IF supclass.t = "class" THEN supclass.n ELSE 0)
        s4 == [s3 EXCEPT !.classes = Append(s3.classes, klass)]
        a == Environment_assign(s4.envs, env2, stmt.name,
                                CallableClass(Len(s4.classes)))
    IN  [panic |-> a.panic, st |-> [s4 EXCEPT !.envs = a.heap],
         environment |-> env2]

Interpreter_visit_class_stmt ==
    /\ Executing("Class")
    /\ UNCHANGED evaluated
    /\ UNCHANGED exitvars
    /\ IF ctl.node.superclass # NoExpr
       THEN /\ kont' = Append(kont, [k |-> "Class", stmt |-> ctl.node])
            /\ ctl' = Evaluate(ctl.node.superclass)
            /\ UNCHANGED <<heapvars, environment>>
       ELSE LET d == Interpreter_define_class(Store, environment, ctl.node, None)
            IN  /\ SetStore(d.st)
                /\ environment' = d.environment
                /\ kont' = kont
                /\ ctl' = Result(NoReturn)
    /\ UNCHANGED <<runvars, iovars, histvars, ip, status, panic_message>>

Interpreter_visit_class_stmt_superclass ==
    /\ ValueFor("Class")
    /\ UNCHANGED evaluated
    /\ IF ctl.value.t # "class"
       THEN Abort("Superclass must be a class.")
       ELSE LET d == Interpreter_define_class(Store, environment, Top.stmt,
                                              ctl.value)
            IN  /\ SetStore(d.st)
                /\ environment' = d.environment
                /\ kont' = Pop(kont)
                /\ ctl' = Result(NoReturn)
                /\ UNCHANGED <<runvars, iovars, histvars, ip, status,
                               panic_message, exitvars>>

-----------------------------------------------------------------------------
(* Expressions *)

(* visit_literal_expr *)
Interpreter_visit_literal_expr ==
    /\ Evaluating("Literal")
    /\ evaluated' = Append(evaluated, Began(ctl.node))
    /\ UNCHANGED exitvars
    /\ ctl' = Returned(ctl.node.value)
    /\ UNCHANGED <<runvars, heapvars, iovars, histvars, environment, ip, status,
                   panic_message, kont>>

(* visit_variable_expr *)
Interpreter_visit_variable_expr ==
    /\ Evaluating("Variable")
    /\ evaluated' = Append(evaluated, Began(ctl.node))
    /\ LET r == Interpreter_lookup_variable(locals, envs, environment, ctl.node)
           distance == LocalsGet(locals, ctl.node)
       IN  /\ last_access' =
                  IF distance # -1
                  THEN [op |-> "get_at", env |-> environment,
                        distance |-> distance, name |-> ctl.node.name,
                        frame |-> r.frame,
                        target |-> Hop(envs, environment, distance)]
                  ELSE last_access
           /\ IF r.panic # ""
              THEN /\ PanicWith(r.panic)
                   /\ ctl' = ctl
              ELSE /\ status' = status
                   /\ panic_message' = panic_message
                   /\ UNCHANGED exitvars
                   /\ ctl' = Returned(r.value)
    /\ UNCHANGED <<runvars, heapvars, iovars, environment, ip, kont,
                   return_pending, block_entries, last_block, last_call>>

(* visit_assign_expr *)
Interpreter_visit_assign_expr ==
    /\ Evaluating("Assign")
    /\ evaluated' = Append(evaluated, Began(ctl.node))
    /\ UNCHANGED exitvars
    /\ kont' = Append(kont, [k |-> "Assign", expr |-> ctl.node])
    /\ ctl' = Evaluate(ctl.node.value)
    /\ UNCHANGED <<runvars, heapvars, iovars, histvars, environment, ip, status,
                   panic_message>>

(* visit_assign_expr after the value: the three assignment paths.  The `?` *)
(* on a None value returns None before the assignment is made.             *)
Interpreter_assign(map, heap, env, expr, v) ==
    LET distance == LocalsGet(map, expr)
    IN  IF distance = 1
        THEN IF heap[env].enclosing = 0
             THEN [panic |-> "REASON", heap |-> heap, frame |-> 0]
             ELSE IF v = None THEN [panic |-> "", heap |-> heap, frame |-> 0]
             ELSE Environment_assign(heap, heap[env].enclosing, expr.name, v)
        ELSE IF v = None THEN [panic |-> "", heap |-> heap, frame |-> 0]
        ELSE IF distance # -1
        THEN Environment_assign_at(heap, env, distance, expr.name, v)
        ELSE Environment_assign(heap, globals, expr.name, v)

Interpreter_visit_assign_expr_assign ==
    /\ ValueFor("Assign")
    /\ UNCHANGED evaluated
    /\ LET a == Interpreter_assign(locals, envs, environment, Top.expr, ctl.value)
           distance == LocalsGet(locals, Top.expr)
       IN  /\ last_access' =
                  IF distance \notin {-1, 1} /\ ctl.value # None
                  THEN [op |-> "assign_at", env |-> environment,
                        distance |-> distance, name |-> Top.expr.name,
                        frame |-> a.frame,
                        target |-> Hop(envs, environment, distance)]
                  ELSE last_access
           /\ IF a.panic # ""
              THEN /\ PanicWith(a.panic)
                   /\ UNCHANGED <<ctl, kont, envs>>
              ELSE /\ status' = status
                   /\ panic_message' = panic_message
                   /\ UNCHANGED exitvars
                   /\ envs' = a.heap
                   /\ kont' = Pop(kont)
                   /\ ctl' = Returned(ctl.value)
    /\ UNCHANGED <<runvars, funs, classes, instances, iovars, environment, ip,
                   return_pending, block_entries, last_block, last_call>>

(* visit_get_expr *)
Interpreter_visit_get_expr ==
    /\ Evaluating("Get")
    /\ evaluated' = Append(evaluated, Began(ctl.node))
    /\ UNCHANGED exitvars
    /\ kont' = Append(kont, [k |-> "Get", name |-> ctl.node.name])
    /\ ctl' = Evaluate(ctl.node.object)
    /\ UNCHANGED <<runvars, heapvars, iovars, histvars, environment, ip, status,
                   panic_message>>

(* LoxInstance::get *)
LoxInstance_get(st, i, name) ==
    IF name \in DOMAIN st.instances[i].fields
    THEN [panic |-> "", st |-> st, value |-> st.instances[i].fields[name]]
    ELSE LET method == LoxClass_find_method(st, st.instances[i].klass, name)
             b == LoxFunction_bind(st, method, st.instances[i])
         IN  IF method # 0
             THEN [panic |-> "", st |-> b.st,
                   value |-> CallableFunction(b.function)]
             ELSE [panic |-> "Undefined property.", st |-> st, value |-> None]

Interpreter_visit_get_expr_object ==
    /\ ValueFor("Get")
    /\ UNCHANGED evaluated
    /\ IF ctl.value.t # "instance"
       THEN Abort("Only instances have properties.")
       ELSE LET g == LoxInstance_get(Store, ctl.value.n, Top.name)
            IN  IF g.panic # "" THEN Abort(g.panic)
                ELSE /\ SetStore(g.st)
                     /\ kont' = Pop(kont)
                     /\ ctl' = Returned(g.value)
                     /\ UNCHANGED <<runvars, iovars, histvars, environment, ip,
                                    status, panic_message, exitvars>>

(* PartialEq for Value *)
Value_eq(a, b) ==
    CASE a.t = "number" /\ b.t = "number" -> a.n = b.n
      [] a.t = "bool" /\ b.t = "bool" -> a.n = b.n
      [] a.t = "string" /\ b.t = "string" -> a.s = b.s
      [] a.t = "nil" /\ b.t = "nil" -> TRUE
      [] OTHER -> FALSE

(* Interpreter::is_equal: two LoxFunctions and two LoxClasses are compared *)
(* by their to_string texts, any other pair with PartialEq for Value.      *)
Interpreter_is_equal(st, a, b) ==
    IF a = None /\ b = None THEN TRUE
    ELSE IF a = None \/ b = None THEN FALSE
    ELSE IF IsCallable(a) /\ IsCallable(b)
    THEN IF a.t = "function" /\ b.t = "function"
         THEN LoxFunction_to_string(st.funs[a.n])
                  = LoxFunction_to_string(st.funs[b.n])
         ELSE IF a.t = "class" /\ b.t = "class"
         THEN st.classes[a.n].declaration.name = st.classes[b.n].declaration.name
         ELSE FALSE
    ELSE Value_eq(a, b)

(* Interpreter::check_number_operands: the panic message, "" when both     *)
(* operands are numbers.                                                   *)
Interpreter_check_number_operands(left, right) ==
    IF left.t = "number" /\ right.t = "number" THEN ""
    ELSE "Operand must be a number"

(* visit_binary_expr: the operands in the order of their evaluate calls:   *)
(* `let r = self.evaluate(right); let l = self.evaluate(left);`, and for   *)
(* Plus once more `(self.evaluate(left), self.evaluate(right))`.           *)
Interpreter_visit_binary_expr_operands(expr) ==
    IF expr.operator = "+"
    THEN <<expr.right, expr.left, expr.left, expr.right>>
    ELSE <<expr.right, expr.left>>

(* visit_binary_expr: `match operator.type_` on the operand values, in the *)
(* order Interpreter_visit_binary_expr_operands gives them.  A String      *)
(* value is written here without the quotes of its lexeme, so the          *)
(* concatenation of Plus (which drops the inner quotes) is \o.  Slash is   *)
(* not among the operators of the programs run here.                       *)
Interpreter_visit_binary_expr_match(st, operator, values) ==
    LET r == values[1]
        l == values[2]
        check == Interpreter_check_number_operands(l, r)
    IN  CASE operator \in {">", ">=", "<", "<="} ->
                 [panic |-> check,
                  value |-> CASE operator = ">" -> Boolean(l.n > r.n)
                              [] operator = ">=" -> Boolean(l.n >= r.n)
                              [] operator = "<" -> Boolean(l.n < r.n)
                              [] operator = "<=" -> Boolean(l.n <= r.n)]
          [] operator = "!=" ->
                 [panic |-> "", value |-> Boolean(~Interpreter_is_equal(st, l, r))]
          [] operator = "==" ->
                 [panic |-> "", value |-> Boolean(Interpreter_is_equal(st, l, r))]
          [] operator = "-" -> [panic |-> check, value |-> Number(l.n - r.n)]
          [] operator = "*" -> [panic |-> check, value |-> Number(l.n * r.n)]
          [] operator = "+" ->
                 IF values[3].t = "number" /\ values[4].t = "number"
                 THEN [panic |-> "", value |-> Number(values[3].n + values[4].n)]
                 ELSE IF values[3].t = "string" /\ values[4].t = "string"
                 THEN [panic |-> "", value |-> String(values[3].s \o values[4].s)]
                 ELSE [panic |-> "Operand must be a number", value |-> None]
          [] OTHER -> [panic |-> "", value |-> None]

(* visit_binary_expr: the first evaluate call *)
Interpreter_visit_binary_expr ==
    /\ Evaluating("Binary")
    /\ evaluated' = Append(evaluated, Began(ctl.node))
    /\ UNCHANGED exitvars
    /\ kont' = Append(kont, [k |-> "Binary", expr |-> ctl.node, values |-> <<>>])
    /\ ctl' = Evaluate(Interpreter_visit_binary_expr_operands(ctl.node)[1])
    /\ UNCHANGED <<runvars, heapvars, iovars, histvars, environment, ip, status,
                   panic_message>>

(* visit_binary_expr: an operand's value is in; the next evaluate call, or *)
(* the operator applied to the values                                      *)
Interpreter_visit_binary_expr_operand ==
    /\ ValueFor("Binary")
    /\ UNCHANGED evaluated
    /\ LET values == Append(Top.values, ctl.value)
           operands == Interpreter_visit_binary_expr_operands(Top.expr)
           b == Interpreter_visit_binary_expr_match(Store, Top.expr.operator,
                                                    values)
       IN  IF Len(values) < Len(operands)
           THEN /\ kont' = [kont EXCEPT ![Len(kont)].values = values]
                /\ ctl' = Evaluate(operands[Len(values) + 1])
                /\ UNCHANGED <<status, panic_message, exitvars>>
           ELSE IF b.panic # ""
           THEN /\ PanicWith(b.panic)
                /\ UNCHANGED <<ctl, kont>>
           ELSE /\ kont' = Pop(kont)
                /\ ctl' = Returned(b.value)
                /\ UNCHANGED <<status, panic_message, exitvars>>
    /\ UNCHANGED <<runvars, heapvars, iovars, histvars, environment, ip>>

(* visit_logical_expr: the left operand is evaluated first *)
Interpreter_visit_logical_expr ==
    /\ Evaluating("Logical")
    /\ evaluated' = Append(evaluated, Began(ctl.node))
    /\ UNCHANGED exitvars
    /\ kont' = Append(kont, [k |-> "Logical", expr |-> ctl.node,
                             stage |-> "left"])
    /\ ctl' = Evaluate(ctl.node.left)
    /\ UNCHANGED <<runvars, heapvars, iovars, histvars, environment, ip, status,
                   panic_message>>

(* visit_logical_expr with `and` decided like `or`: the variant C16 is     *)
(* tested against.                                                         *)
Interpreter_visit_logical_expr_returns_left_as_or(operator, l) ==
    Interpreter_is_truthy(l)

(* visit_logical_expr: the left value is the result of `or` when it is     *)
(* truthy and of any other operator (`and`) when it is not.                *)
Interpreter_visit_logical_expr_returns_left(operator, l) ==
    IF operator = "or" THEN Interpreter_is_truthy(l)
    ELSE ~Interpreter_is_truthy(l)

Interpreter_visit_logical_expr_left ==
    /\ ValueFor("Logical")
    /\ Top.stage = "left"
    /\ UNCHANGED evaluated
    /\ UNCHANGED exitvars
    /\ IF Interpreter_visit_logical_expr_returns_left(Top.expr.operator, ctl.value)
       THEN /\ kont' = Pop(kont)
            /\ ctl' = Returned(ctl.value)
       ELSE /\ kont' = [kont EXCEPT ![Len(kont)].stage = "right"]
            /\ ctl' = Evaluate(Top.expr.right)
    /\ UNCHANGED <<runvars, heapvars, iovars, histvars, environment, ip, status,
                   panic_message>>

(* visit_logical_expr: return self.evaluate(&right.clone()) *)
Interpreter_visit_logical_expr_right ==
    /\ ValueFor("Logical")
    /\ Top.stage = "right"
    /\ UNCHANGED evaluated
    /\ UNCHANGED exitvars
    /\ kont' = Pop(kont)
    /\ ctl' = Returned(ctl.value)
    /\ UNCHANGED <<runvars, heapvars, iovars, histvars, environment, ip, status,
                   panic_message>>

(* visit_set_expr: the object is evaluated first *)
Interpreter_visit_set_expr ==
    /\ Evaluating("Set")
    /\ evaluated' = Append(evaluated, Began(ctl.node))
    /\ UNCHANGED exitvars
    /\ kont' = Append(kont, [k |-> "Set", expr |-> ctl.node, object |-> None,
                             stage |-> "object"])
    /\ ctl' = Evaluate(ctl.node.object)
    /\ UNCHANGED <<runvars, heapvars, iovars, histvars, environment, ip, status,
                   panic_message>>

(* visit_set_expr: the value is evaluated only for an instance *)
Interpreter_visit_set_expr_object ==
    /\ ValueFor("Set")
    /\ Top.stage = "object"
    /\ UNCHANGED evaluated
    /\ IF ctl.value.t # "instance"
       THEN Abort("Operand must be a number")
       ELSE /\ kont' = [kont EXCEPT ![Len(kont)].object = ctl.value,
                                    ![Len(kont)].stage = "value"]
            /\ ctl' = Evaluate(Top.expr.value)
            /\ UNCHANGED <<runvars, heapvars, iovars, histvars, environment, ip,
                           status, panic_message, exitvars>>

(* LoxInstance::set *)
LoxInstance_set(st, i, name, value) ==
    [st EXCEPT !.instances[i].fields = Insert(st.instances[i].fields, name, value)]

(* visit_set_expr: instance.borrow_mut().set(name, value), whose expect     *)
(* panics on a value of None                                               *)
Interpreter_visit_set_expr_value ==
    /\ ValueFor("Set")
    /\ Top.stage = "value"
    /\ UNCHANGED evaluated
    /\ IF ctl.value = None
       THEN Abort("REASON")
       ELSE /\ SetStore(LoxInstance_set(Store, Top.object.n, Top.expr.name,
                                        ctl.value))
            /\ kont' = Pop(kont)
            /\ ctl' = Returned(ctl.value)
            /\ UNCHANGED <<runvars, iovars, histvars, environment, ip, status,
                           panic_message, exitvars>>

(* visit_this_expr *)
Interpreter_visit_this_expr ==
    /\ Evaluating("This")
    /\ evaluated' = Append(evaluated, Began(ctl.node))
    /\ LET r == Interpreter_lookup_variable(locals, envs, environment, ctl.node)
       IN  IF r.panic # ""
           THEN /\ PanicWith(r.panic)
                /\ ctl' = ctl
           ELSE /\ ctl' = Returned(r.value)
                /\ UNCHANGED <<status, panic_message, exitvars>>
    /\ UNCHANGED <<runvars, heapvars, iovars, histvars, environment, ip, kont>>

(* visit_super_expr: the superclass and `this` are both read at the        *)
(* distance recorded for the `super` expression; the method is looked up   *)
(* with find_method on the superclass and bound to a copy of the instance. *)
UndefinedSuperProperty(method) == "Undefined property '" \o method \o "'."

Interpreter_visit_super_expr ==
    /\ Evaluating("Super")
    /\ evaluated' = Append(evaluated, Began(ctl.node))
    /\ LET distance == LocalsGet(locals, ctl.node)
           superclass == Environment_get_at(envs, environment, distance, "super")
           object == Environment_get_at(envs, environment, distance, "this")
           meth == LoxClass_find_method(Store, superclass.value.n,
                                        ctl.node.method)
           b == LoxFunction_bind(Store, meth, instances[object.value.n])
           panic == IF superclass.panic # "" THEN superclass.panic
                    ELSE IF ~IsCallable(superclass.value)
                    THEN "Expected superclass to be an instance."
                    ELSE IF object.panic # "" THEN object.panic
                    ELSE IF object.value.t # "instance"
                    THEN "Expected superclass to be an instance."
                    ELSE IF superclass.value.t # "class"
                    THEN "Superclass must be a class."
                    ELSE IF meth = 0
                    THEN UndefinedSuperProperty(ctl.node.method)
                    ELSE ""
       IN  IF distance = -1
           THEN /\ ctl' = Returned(None)
                /\ UNCHANGED <<heapvars, status, panic_message, exitvars>>
           ELSE IF panic # ""
           THEN /\ PanicWith(panic)
                /\ UNCHANGED <<heapvars, ctl>>
           ELSE /\ SetStore(b.st)
                /\ ctl' = Returned(CallableFunction(b.function))
                /\ UNCHANGED <<status, panic_message, exitvars>>
    /\ UNCHANGED <<runvars, iovars, histvars, environment, ip, kont>>

-----------------------------------------------------------------------------
(* Calls *)

(* visit_call_expr: the callee is evaluated first *)
Interpreter_visit_call_expr ==
    /\ Evaluating("Call")
    /\ evaluated' = Append(evaluated, Began(ctl.node))
    /\ UNCHANGED exitvars
    /\ kont' = Append(kont, [k |-> "Call", expr |-> ctl.node, callee |-> None,
                             args |-> <<>>, stage |-> "callee"])
    /\ ctl' = Evaluate(ctl.node.callee)
    /\ UNCHANGED <<runvars, heapvars, iovars, histvars, environment, ip, status,
                   panic_message>>

(* visit_call_expr after the callee's value is in: the `for arg in         *)
(* arguments` loop starts whatever the callee's value is; `match function` *)
(* comes after the loop.                                                   *)
Interpreter_visit_call_expr_arguments_callable_only(expr, function) ==
    IF expr.arguments = <<>> \/ ~IsCallable(function) THEN Invoke
    ELSE Evaluate(expr.arguments[1])

Interpreter_visit_call_expr_arguments(expr, function) ==
    IF expr.arguments = <<>> THEN Invoke
    ELSE Evaluate(expr.arguments[1])

(* visit_call_expr: the callee's value is in, the arguments follow *)
Interpreter_visit_call_expr_callee ==
    /\ ValueFor("Call")
    /\ UNCHANGED evaluated
    /\ UNCHANGED exitvars
    /\ Top.stage = "callee"
    /\ kont' = [kont EXCEPT ![Len(kont)].callee = ctl.value,
                            ![Len(kont)].stage = "args"]
    /\ ctl' = Interpreter_visit_call_expr_arguments(Top.expr, ctl.value)
    /\ UNCHANGED <<runvars, heapvars, iovars, histvars, environment, ip, status,
                   panic_message>>

(* visit_call_expr: args.push(self.evaluate(&arg.clone())) *)
Interpreter_visit_call_expr_argument ==
    /\ ValueFor("Call")
    /\ UNCHANGED evaluated
    /\ UNCHANGED exitvars
    /\ Top.stage = "args"
    /\ LET args == Append(Top.args, ctl.value)
       IN  /\ kont' = [kont EXCEPT ![Len(kont)].args = args]
           /\ ctl' = IF Len(args) = Len(Top.expr.arguments) THEN Invoke
                     ELSE Evaluate(Top.expr.arguments[Len(args) + 1])
    /\ UNCHANGED <<runvars, heapvars, iovars, histvars, environment, ip, status,
                   panic_message>>

(* LoxFunction::call up to execute_function_block: the new frame (whose    *)
(* enclosing frame is interpreter.environment), the parameters, the sync.  *)
RECURSIVE DefineParams(_, _, _, _, _)
DefineParams(heap, env, params, arguments, i) ==
    IF i > Len(params) THEN heap
    ELSE DefineParams(Environment_define(heap, env, params[i], arguments[i]),
                      env, params, arguments, i + 1)

LoxFunction_call(st, interpreter_env, f, arguments) ==
    LET params == st.funs[f].declaration.params
        env == Len(st.envs) + 1
        heap1 == Append(st.envs, Environment_new(interpreter_env))
        heap2 == DefineParams(heap1, env, params, arguments, 1)
        heap3 == IF st.funs[f].closure # interpreter_env
                 THEN LoxFunction_sync_closure_with_interpreter_env(
                          heap2, st.funs[f].closure, interpreter_env)
                 ELSE heap2
    IN  IF \E i \in 1..Len(params) : arguments[i] = None
        THEN [panic |-> "unwrap on None", st |-> st, env |-> 0]
        ELSE [panic |-> "", st |-> [st EXCEPT !.envs = heap3], env |-> env]

(* The record execute_function_block keeps while the body runs *)
FunctionFrame(st, f, previous, env, callee, nargs, construct, before) ==
    [k |-> "Function", fn |-> f, previous |-> previous, environment |-> env,
     body |-> st.funs[f].declaration.body,
     i |-> IF st.funs[f].declaration.body = <<>> THEN 0 ELSE 1,
     callee |-> callee, nargs |-> nargs, construct |-> construct,
     before |-> before]

FirstOf(body) == IF body = <<>> THEN Result(NoReturn) ELSE Execute(body[1])

(* LoxInstance::new *)
LoxInstance_new(klass) == [klass |-> klass, fields |-> EmptyMap]

(* History of the latest call: the callee value, the LoxFunction run (0    *)
(* for none), the argument count, how far the call got, the value handed   *)
(* to visit_call_expr, the value LoxFunction::call produced, the signal of *)
(* the body, the instance a class call made (0 for none) and the number of *)
(* instances that existed when the call began.                             *)
CallRecord(callee, fn, nargs, outcome, value, inner, ret, instance, before) ==
    [callee |-> callee, fn |-> fn, nargs |-> nargs, outcome |-> outcome,
     value |-> value, inner |-> inner, ret |-> ret, instance |-> instance,
     before |-> before]

(* visit_call_expr from `match function` on: the two checks, then          *)
(* callable.call for a native function, a LoxFunction or a LoxClass         *)
Interpreter_visit_call_expr_call ==
    /\ Running
    /\ UNCHANGED evaluated
    /\ ctl.m = "call"
    /\ LET function == Top.callee
           args == Top.args
           n == Len(instances)
       IN  IF ~IsCallable(function)
           THEN /\ PanicWith("Can only call functions and classes")
                /\ last_call' = CallRecord(function, 0, Len(args),
                                      "NotCallable", None, None, NoReturn, 0, n)
                /\ UNCHANGED <<heapvars, environment, ctl, kont>>
           ELSE IF Len(args) # Callable_arity(Store, function)
           THEN /\ PanicWith(ArityMessage(Callable_arity(Store, function), Len(args)))
                /\ last_call' = CallRecord(function, 0, Len(args),
                                      "ArityMismatch", None, None, NoReturn, 0, n)
                /\ UNCHANGED <<heapvars, environment, ctl, kont>>
           ELSE IF function.t = "native"
           THEN /\ \E t \in 0..MaxClock : ctl' = Returned(Number(t))
                /\ kont' = Pop(kont)
                /\ last_call' = CallRecord(function, 0, Len(args), "returned",
                                      ctl'.value, ctl'.value, NoReturn, 0, n)
                /\ UNCHANGED <<heapvars, environment, status, panic_message, exitvars>>
           ELSE IF function.t = "function"
           THEN LET c == LoxFunction_call(Store, environment, function.n, args)
                IN  IF c.panic # ""
                    THEN /\ PanicWith(c.panic)
                         /\ UNCHANGED <<heapvars, environment, ctl, kont,
                                        last_call>>
                    ELSE /\ SetStore(c.st)
                         /\ environment' = c.env
                         /\ kont' = Append(kont, FunctionFrame(c.st, function.n,
                                environment, c.env, function, Len(args), 0, n))
                         /\ ctl' = FirstOf(c.st.funs[function.n].declaration.body)
                         /\ last_call' = CallRecord(function, function.n,
                                Len(args), "entered", None, None, NoReturn, 0, n)
                         /\ UNCHANGED <<status, panic_message, exitvars>>
           ELSE LET s1 == [Store EXCEPT !.instances =
                               Append(instances, LoxInstance_new(function.n))]
                    instance == Len(s1.instances)
                    initializer == LoxClass_find_method(s1, function.n, "init")
                    b == LoxFunction_bind(s1, initializer, s1.instances[instance])
                    c == LoxFunction_call(b.st, environment, b.function, args)
                IN  IF initializer = 0
                    THEN /\ SetStore(s1)
                         /\ kont' = Pop(kont)
                         /\ ctl' = Returned(Instance(instance))
                         /\ last_call' = CallRecord(function, 0, Len(args),
                                "returned", Instance(instance), None, NoReturn,
                                instance, n)
                         /\ UNCHANGED <<environment, status, panic_message, exitvars>>
                    ELSE IF c.panic # ""
                    THEN /\ PanicWith(c.panic)
                         /\ UNCHANGED <<heapvars, environment, ctl, kont,
                                        last_call>>
                    ELSE /\ SetStore(c.st)
                         /\ environment' = c.env
                         /\ kont' = Append(kont, FunctionFrame(c.st, b.function,
                                environment, c.env, function, Len(args),
                                instance, n))
                         /\ ctl' = FirstOf(c.st.funs[b.function].declaration.body)
                         /\ last_call' = CallRecord(function, b.function,
                                Len(args), "entered", None, None, NoReturn,
                                instance, n)
                         /\ UNCHANGED <<status, panic_message, exitvars>>
    /\ UNCHANGED <<runvars, iovars, ip, last_access, return_pending,
                   block_entries, last_block>>

(* execute_function_block: a statement of the body returned; at the end,   *)
(* the rest of LoxFunction::call (and of LoxClass::call for an             *)
(* initializer run by a class call) and `Some(callable.call(..)?)`.        *)
Interpreter_execute_function_block ==
    /\ ResultFor("Function")
    /\ UNCHANGED evaluated
    /\ IF ctl.ret.some \/ Top.i >= Len(Top.body)
       THEN LET r == LoxFunction_call_return(Store, Top.fn, ctl.ret)
                value == IF Top.construct # 0 THEN Instance(Top.construct)
                         ELSE r.value
            IN  IF r.panic # ""
                THEN /\ PanicWith(r.panic)
                     /\ environment' = Top.previous
                     /\ UNCHANGED <<ctl, kont, return_pending, last_call>>
                ELSE /\ environment' = Top.previous
                     /\ kont' = Pop(Pop(kont))
                     /\ ctl' = Returned(value)
                     /\ return_pending' = FALSE
                     /\ last_call' = CallRecord(Top.callee, Top.fn, Top.nargs,
                            "returned", value, r.value, ctl.ret, Top.construct,
                            Top.before)
                     /\ UNCHANGED <<status, panic_message, exitvars>>
       ELSE /\ kont' = [kont EXCEPT ![Len(kont)].i = Top.i + 1]
            /\ ctl' = Execute(Top.body[Top.i + 1])
            /\ UNCHANGED <<environment, status, panic_message, exitvars, return_pending,
                           last_call>>
    /\ UNCHANGED <<runvars, heapvars, iovars, ip, last_access, block_entries,
                   last_block>>

-----------------------------------------------------------------------------
Next ==
    \/ run_file
    \/ run_resolve
    \/ Interpreter_interpret
    \/ Interpreter_visit_block_stmt
    \/ Interpreter_execute_block
    \/ Interpreter_visit_class_stmt
    \/ Interpreter_visit_class_stmt_superclass
    \/ Interpreter_visit_expression_stmt
    \/ Interpreter_visit_expression_stmt_end
    \/ Interpreter_visit_function_stmt
    \/ Interpreter_visit_if_stmt
    \/ Interpreter_visit_if_stmt_branch
    \/ Interpreter_visit_print_stmt
    \/ Interpreter_visit_print_stmt_write
    \/ Interpreter_visit_return_stmt
    \/ Interpreter_visit_return_stmt_value
    \/ Interpreter_visit_var_stmt
    \/ Interpreter_visit_var_stmt_define
    \/ Interpreter_visit_while_stmt
    \/ Interpreter_visit_while_stmt_condition
    \/ Interpreter_visit_while_stmt_body
    \/ Interpreter_visit_literal_expr
    \/ Interpreter_visit_variable_expr
    \/ Interpreter_visit_assign_expr
    \/ Interpreter_visit_assign_expr_assign
    \/ Interpreter_visit_get_expr
    \/ Interpreter_visit_get_expr_object
    \/ Interpreter_visit_binary_expr
    \/ Interpreter_visit_binary_expr_operand
    \/ Interpreter_visit_logical_expr
    \/ Interpreter_visit_logical_expr_left
    \/ Interpreter_visit_logical_expr_right
    \/ Interpreter_visit_set_expr
    \/ Interpreter_visit_set_expr_object
    \/ Interpreter_visit_set_expr_value
    \/ Interpreter_visit_this_expr
    \/ Interpreter_visit_super_expr
    \/ Interpreter_visit_call_expr
    \/ Interpreter_visit_call_expr_callee
    \/ Interpreter_visit_call_expr_argument
    \/ Interpreter_visit_call_expr_call
    \/ Interpreter_execute_function_block

Spec == Init /\ [][Next]_vars

-----------------------------------------------------------------------------
(* Properties *)

Finished(p) == program = ProgramIndex(p) /\ status = "done"

(* C1: static scoping under shadowing.  A function declared in a block     *)
(* that reads a free variable bound only in an outer scope reads that      *)
(* outer binding at every call, also after a later `var a` in the same     *)
(* block: the shadowing program prints "global" twice.                     *)
C1_StaticScopingUnderShadowing ==
    Finished(ShadowingProgram) => output = <<"global", "global">>

(* C2: the frame of a call of a user function has the function's closure   *)
(* as its parent, so a name bound only in a local scope of the caller is   *)
(* not readable from the callee: the caller-local program never prints the *)
(* caller's local.                                                         *)
C2_CallFrameParentIsClosure ==
    /\ \A i \in DOMAIN kont :
           kont[i].k = "Function" =>
               envs[kont[i].environment].enclosing = funs[kont[i].fn].closure
    /\ program = ProgramIndex(CallerLocalProgram) =>
           \A i \in DOMAIN output : output[i] # "local"

(* C3: a closure shares the environment active at its declaration, so an   *)
(* assignment made later in that frame is seen by the next call: the       *)
(* closure program prints "second".                                        *)
C3_ClosureSharesEnvironment ==
    Finished(ClosureProgram) => output = <<"second">>

BoundAt(e, distance, name) ==
    LET frame == Hop(envs, e, distance)
    IN  frame # 0 /\ name \in DOMAIN envs[frame].values

(* C4: resolution and run time agree.  Whenever a Variable or Assign       *)
(* expression with a recorded depth d is evaluated, the frame exactly d    *)
(* parent-hops outward from the current environment binds its name.        *)
C4_ResolutionRuntimeAgreement ==
    /\ (Evaluating("Variable") /\ LocalsGet(locals, ctl.node) # -1) =>
           BoundAt(environment, LocalsGet(locals, ctl.node), ctl.node.name)
    /\ (ValueFor("Assign") /\ LocalsGet(locals, Top.expr) # -1) =>
           BoundAt(environment, LocalsGet(locals, Top.expr), Top.expr.name)

Max(S) == CHOOSE x \in S : \A y \in S : y <= x

(* The scopes of a resolve_local call that declare the name *)
Declaring(entry) == {j \in 1..Len(entry.scopes) : entry.name \in entry.scopes[j]}

(* C5: the depth the resolver records for a name use is the number of      *)
(* scopes between the innermost open scope and the nearest enclosing scope *)
(* that declares the name (0 for the innermost scope itself), and a name   *)
(* no open scope declares gets no entry.                                   *)
C5_RecordedDepthCountsFromInnermost ==
    \A i \in DOMAIN resolve_log :
        IF Declaring(resolve_log[i]) = {}
        THEN resolve_log[i].recorded = -1
        ELSE resolve_log[i].recorded =
                 Len(resolve_log[i].scopes) - Max(Declaring(resolve_log[i]))

(* C6: get_at and assign_at act only on the frame exactly `distance`       *)
(* parent-hops outward from the receiver: the binding they return or       *)
(* modify is never one of another frame.                                   *)
C6_AccessAtExactDepth ==
    (last_access.op # "none" /\ last_access.frame # 0) =>
        last_access.frame = last_access.target

(* C7: early return.  Once a Return statement has run, nothing else runs   *)
(* in that call: the return signal is on its way to the enclosing call     *)
(* until the call ends, and the call ends with the returned value.         *)
C7_EarlyReturnEndsCall ==
    /\ return_pending => (ctl.m = "result" /\ ctl.ret.some)
    /\ (last_call.outcome = "returned" /\ last_call.ret.some
        /\ ~funs[last_call.fn].is_initializer) =>
           last_call.value = last_call.ret.value

(* C8: a Block runs in a new child frame of the current environment and,   *)
(* on every exit (normal completion or a Return signal from inside), the   *)
(* current environment is again the frame that was current before the      *)
(* block, and that frame binds no name it did not bind before.             *)
C8_BlockRestoresEnvironment ==
    /\ (Running /\ ctl.m = "execute" /\ kont # <<>> /\ Top.k = "Block"
        /\ Top.i = 1) =>
           /\ environment # Top.previous
           /\ envs[environment].enclosing = Top.previous
    /\ last_block.entered # 0 =>
           /\ last_block.after = last_block.entered
           /\ last_block.keys_after = last_block.keys_before

(* A block inside a function body was left by a Return signal *)
C8_BlockLeftByReturn ==
    /\ last_block.entered # 0
    /\ last_block.returned
    /\ last_block.entered # globals

(* The parameter count of the `init` method a class declaration holds      *)
(* (the last one of that name), 0 without one.                             *)
RECURSIVE InitParams(_, _)
InitParams(methods, i) ==
    IF i = 0 THEN 0
    ELSE IF methods[i].name = "init" THEN Len(methods[i].params)
    ELSE InitParams(methods, i - 1)

DeclaredArity(callee) ==
    CASE callee.t = "function" -> Len(funs[callee.n].declaration.params)
      [] callee.t = "class" ->
             InitParams(classes[callee.n].declaration.methods,
                        Len(classes[callee.n].declaration.methods))
      [] OTHER -> 0

(* C9: calling a class returns the newly constructed instance, and a call  *)
(* of an `init` method yields the instance bound as `this`, whether its    *)
(* body finishes normally or runs a bare `return;`.                        *)
C9_InitializerYieldsThis ==
    /\ (last_call.outcome = "returned" /\ last_call.fn # 0
        /\ funs[last_call.fn].is_initializer) =>
           /\ last_call.inner.t = "instance"
           /\ last_call.inner =
                  envs[funs[last_call.fn].closure].values["this"]
    /\ (last_call.outcome = "returned" /\ last_call.callee.t = "class") =>
           /\ last_call.value.t = "instance"
           /\ last_call.value.n > last_call.before
           /\ last_call.value.n = last_call.instance
           /\ instances[last_call.value.n].klass = last_call.callee.n

(* `init` called on an instance ended by a bare `return;` *)
C9_ExplicitInitBareReturn ==
    /\ last_call.outcome = "returned"
    /\ last_call.callee.t = "function"
    /\ funs[last_call.fn].is_initializer
    /\ last_call.ret = ReturnValue(Nil)
    /\ last_call.value.t = "instance"

(* C10: a class's arity is the parameter count of its `init` method, 0     *)
(* without one; a call whose argument count differs from the callee's      *)
(* arity raises the arity error, makes no instance and runs no statement   *)
(* of `init` or of the callee's body.                                      *)
C10_ArityChecked ==
    /\ \A c \in DOMAIN classes :
           LoxClass_arity(Store, c) = DeclaredArity(CallableClass(c))
    /\ last_call.outcome \in {"entered", "returned"} =>
           last_call.nargs = DeclaredArity(last_call.callee)
    /\ last_call.outcome = "ArityMismatch" =>
           /\ last_call.nargs # DeclaredArity(last_call.callee)
           /\ status = "panic"
           /\ ctl.m = "call"
           /\ Len(instances) = last_call.before
    /\ (ctl.m = "call" /\ IsCallable(Top.callee) /\ status = "panic"
        /\ Len(Top.args) # DeclaredArity(Top.callee)) =>
           last_call.outcome = "ArityMismatch"

(* A class with an `init` of one parameter was called with another number  *)
(* of arguments.                                                           *)
C10_ClassArityMismatch ==
    /\ last_call.outcome = "ArityMismatch"
    /\ last_call.callee.t = "class"
    /\ DeclaredArity(last_call.callee) = 1
    /\ output = <<>>

-----------------------------------------------------------------------------
(* The operand expressions of the expression whose frame is on top of the  *)
(* continuation stack, in the order their evaluation began.                *)

Exprs(log) == [i \in 1..Len(log) |-> log[i].expr]

TopBegan ==
    CHOOSE i \in DOMAIN evaluated :
        /\ evaluated[i] = [expr |-> Top.expr, depth |-> Len(kont) - 1]
        /\ \A j \in DOMAIN evaluated :
               evaluated[j] = evaluated[i] => j <= i

TopOperands ==
    Exprs(SelectSeq(SubSeq(evaluated, TopBegan + 1, Len(evaluated)),
                    LAMBDA b : b.depth = Len(kont)))

IsPrefix(a, b) == Len(a) <= Len(b) /\ a = SubSeq(b, 1, Len(a))

CallCheckMessages ==
    {"Can only call functions and classes"}
    \cup {ArityMessage(arity, n) : arity \in 0..9, n \in 0..9}

(* C11: in a call the callee expression is evaluated first, then every     *)
(* argument once from left to right; the callable check and the arity      *)
(* check come only when all of them have been evaluated, and the callee's  *)
(* body is entered only when both checks passed.                           *)
C11_CallEvaluationOrder ==
    /\ (kont # <<>> /\ Top.k = "Call") =>
           /\ IsPrefix(TopOperands, <<Top.expr.callee>> \o Top.expr.arguments)
           /\ ctl.m = "call" =>
                  /\ TopOperands = <<Top.expr.callee>> \o Top.expr.arguments
                  /\ Len(Top.args) = Len(Top.expr.arguments)
    /\ panic_message \in CallCheckMessages => ctl.m = "call"
    /\ last_call.outcome = "entered" =>
           /\ IsCallable(last_call.callee)
           /\ last_call.nargs = Callable_arity(Store, last_call.callee)

(* A value that is not callable was called with two arguments: both        *)
(* argument assignments took place before the call was refused.            *)
C11_NotCallableAfterArguments ==
    /\ program = ProgramIndex(NotCallableProgram)
    /\ panic_message = "Can only call functions and classes"
    /\ envs[globals].values["a"] = String("one")
    /\ envs[globals].values["b"] = String("two")

(* C12: a field assigned through `this` in `init` is present on the       *)
(* instance the class call returns: the program that sets `x` in `init`    *)
(* and reads it through the variable prints the value.                     *)
C12_InitFieldOnReturnedInstance ==
    (program = ProgramIndex(InitFieldProgram) /\ status \in {"done", "panic"}) =>
        (status = "done" /\ output = <<"set">>)

(* A field set through one variable is read through another variable that  *)
(* refers to the same instance.                                            *)
C12_AliasSeesField ==
    Finished(AliasFieldProgram) /\ output = <<"v">>

(* The classes of the superclass chain that starts at class c (0 is no     *)
(* class) declare a method of this name.                                   *)
RECURSIVE DeclaredOnChain(_, _, _)
DeclaredOnChain(st, c, name) ==
    IF c = 0 THEN FALSE
    ELSE \/ name \in DOMAIN st.classes[c].methods
         \/ DeclaredOnChain(st, st.classes[c].superclass, name)

(* C13: a Get raises the undefined-property error only when the instance   *)
(* has no field of that name and neither its class nor any class on the    *)
(* superclass chain declares a method of that name.                        *)
C13_UndefinedPropertyOnlyIfAbsent ==
    (/\ status = "panic"
     /\ panic_message = "Undefined property."
     /\ ctl.m = "value"
     /\ kont # <<>>
     /\ Top.k = "Get") =>
        /\ Top.name \notin DOMAIN instances[ctl.value.n].fields
        /\ ~DeclaredOnChain(Store, instances[ctl.value.n].klass, Top.name)

(* C14: `super.m` in a method of B finds `m` on the chain that starts at   *)
(* B's superclass A: with `m` declared by A's own superclass G, the call   *)
(* runs G's method before control returns to B's method.                   *)
C14_SuperFindsMethodOnChain ==
    (program = ProgramIndex(SuperChainProgram) /\ status \in {"done", "panic"}) =>
        (status = "done" /\ output = <<"G", "B">>)

(* With `m` declared by the superclass itself, A's method runs before B's  *)
(* method goes on.                                                         *)
C14_SuperRunsSuperclassMethod ==
    Finished(SuperProgram) /\ output = <<"A", "B">>

(* C15: a method obtained by a Get on instance i is bound to i, so `this` *)
(* in its body denotes i whenever it is called: after a method of `a` was  *)
(* called, the same method obtained from `b` still prints b's field.       *)
C15_MethodBoundToItsInstance ==
    (program = ProgramIndex(BoundMethodProgram) /\ status \in {"done", "panic"}) =>
        (status = "done" /\ output = <<"a", "b">>)

(* Only Nil and false are falsy. *)
Falsy(v) == v \in {Nil, Boolean(FALSE)}

(* The left operand decides `and` when it is falsy and `or` when it is not. *)
LeftDecides(operator, left) ==
    IF operator = "and" THEN Falsy(left) ELSE ~Falsy(left)

(* C16: `and` and `or` evaluate the left operand once and yield its value, *)
(* without evaluating the right operand, when it decides the result (falsy *)
(* for `and`, truthy for `or`, only Nil and false being falsy); otherwise  *)
(* they yield the value of the right operand.                              *)
C16_LogicalShortCircuit ==
    /\ (kont # <<>> /\ Top.k = "Logical") =>
           LET begun == IF Top.stage = "left" THEN <<Top.expr.left>>
                        ELSE <<Top.expr.left, Top.expr.right>>
           IN  /\ IsPrefix(TopOperands, begun)
               /\ Top.stage = "right" => TopOperands # <<>>
               /\ ctl.m = "value" => TopOperands = begun
    /\ \A l \in 1..Len(LogicalOperands), o \in 1..Len(LogicalOperators) :
           LET left == LogicalOperands[l]
               operator == LogicalOperators[o]
           IN  (program = ProgramIndex(LogicalProgram(left, operator))
                /\ status \in {"done", "panic"}) =>
                   /\ status = "done"
                   /\ IF LeftDecides(operator, left)
                      THEN /\ output = <<Interpreter_stringify(Store, left)>>
                           /\ instances = <<>>
                      ELSE /\ output = <<"C instance">>
                           /\ Len(instances) = 1

(* `0 and C()` made the instance and printed it: 0 is truthy, so the right *)
(* operand's value is the result.                                          *)
C16_ZeroIsTruthy ==
    /\ Finished(LogicalProgram(Number(0), "and"))
    /\ output = <<"C instance">>
    /\ Len(instances) = 1

(* C17: a binary expression evaluates each operand once, and with an      *)
(* operator other than `+` the left operand before the right one: the      *)
(* operand evaluations begun so far are the start of <<left, right>>, or   *)
(* for `+` of one of the two orders.                                       *)
C17_BinaryOperandsOnceLeftFirst ==
    (kont # <<>> /\ Top.k = "Binary") =>
        \/ IsPrefix(TopOperands, <<Top.expr.left, Top.expr.right>>)
        \/ /\ Top.expr.operator = "+"
           /\ IsPrefix(TopOperands, <<Top.expr.right, Top.expr.left>>)

(* C18: instances compare by identity, so an instance is equal to itself  *)
(* when it is compared through two references to it: `a == a` prints true  *)
(* for a variable `a` that holds an instance.                              *)
C18_InstanceEqualsItself ==
    (program = ProgramIndex(InstanceEqualityProgram)
     /\ status \in {"done", "panic"}) =>
        (status = "done" /\ output = <<"true">>)

(* The parser or the resolver rejects the program. *)
Rejected ==
    \/ program = Unparsable
    \/ Resolver_resolve(Resolver_new, statements, 1).panic # ""

(* C19: of a program that the parser or the resolver rejects no statement  *)
(* is executed: interpretation never starts, nothing is printed, no        *)
(* binding is made and no expression is evaluated.                         *)
C19_RejectedProgramRunsNothing ==
    Rejected =>
        /\ status \in {"start", "resolve", "panic"}
        /\ output = <<>>
        /\ DOMAIN envs = {globals}
        /\ DOMAIN envs[globals].values = {"clock"}
        /\ evaluated = <<>>
        /\ ip = 1
        /\ ctl = Idle

(* The resolver refused a top-level Return that follows a Var and a Print  *)
(* statement.                                                              *)
C19_ResolverRejectedAfterPrint ==
    /\ program = ProgramIndex(TopLevelReturnProgram)
    /\ status = "panic"
    /\ panic_message = "Can't return from top-level code."

(* C20: a runtime error sets the runtime-error flag and ends the          *)
(* interpretation, and the process exits with the runtime exit code.       *)
C20_RuntimeErrorExitCode ==
    had_runtime_error =>
        /\ status \in {"panic", "exit"}
        /\ exit_code = RuntimeExitCode

(* The run of the program went past the resolver. *)
Resolved == status \in {"interpret", "done", "panic"}

UseInOwnInitializer == "Can't read local variable in its own initializer."

(* C21: in a block or a function body a `var` initializer that reads the   *)
(* variable being declared is rejected by the resolver, with or without an *)
(* outer variable of that name; at global scope the same initializer is    *)
(* accepted and reads the existing global binding.                         *)
C21_UseInOwnInitializer ==
    /\ \A p \in OwnInitializerLocalPrograms :
           (program = ProgramIndex(p) /\ Resolved) =>
               /\ status = "panic"
               /\ panic_message = UseInOwnInitializer
               /\ output = <<>>
    /\ (program = ProgramIndex(OwnInitializerGlobalProgram) /\ Resolved) =>
           /\ panic_message = ""
           /\ status = "done" => output = <<"outer">>

(* The initializer `a` of a block's `var a` was rejected although a global *)
(* `a` exists.                                                             *)
C21_ShadowingInitializerRejected ==
    /\ program = ProgramIndex(OwnInitializerShadowProgram)
    /\ status = "panic"
    /\ panic_message = UseInOwnInitializer

DuplicateInScope == "Variable with this name already declared in this scope."

(* C22: a second declaration of a name in the same block or function scope *)
(* (a variable, a function, a class, a parameter, or a local variable      *)
(* named like a parameter) is rejected by the resolver; a second global    *)
(* declaration is accepted and replaces the first; a declaration of the    *)
(* name in a nested scope is accepted.                                     *)
C22_DuplicateInScope ==
    /\ \A p \in DuplicatePrograms :
           (program = ProgramIndex(p) /\ Resolved) =>
               /\ status = "panic"
               /\ panic_message = DuplicateInScope
               /\ output = <<>>
    /\ (program = ProgramIndex(GlobalRedeclareProgram) /\ Resolved) =>
           /\ panic_message = ""
           /\ status = "done" => output = <<"second">>
    /\ (program = ProgramIndex(NestedRedeclareProgram) /\ Resolved) =>
           /\ panic_message = ""
           /\ status = "done" => output = <<"inner", "outer">>

(* A local variable named like a parameter of its function was rejected.   *)
C22_ParameterCollisionRejected ==
    /\ program = ProgramIndex(DuplicateParamLocalProgram)
    /\ status = "panic"
    /\ panic_message = DuplicateInScope

ReturnFromTopLevel == "Can't return from top-level code."

ReturnValueFromInitializer == "Can't return a value from an initializer."

ReturnAcceptedPrograms ==
    { InitializerBareReturnProgram, InitializerNestedReturnProgram,
      MethodReturnValueProgram, ReturnCallProgram, EarlyReturnProgram }

(* C23: the resolver rejects a Return exactly when no function encloses it  *)
(* and a Return with a value exactly when the innermost enclosing function  *)
(* is an initializer.  A return at top level, also one that follows a       *)
(* function declaration, stops the program before any statement runs; a     *)
(* value returned from init, also after a nested function inside init, is   *)
(* rejected; a bare return in init, a value returned from a function nested *)
(* in init, and returns in methods and functions are accepted.              *)
C23_ReturnRejection ==
    /\ \A p \in {TopLevelReturnProgram, ReturnAfterFunctionProgram} :
           (program = ProgramIndex(p) /\ Resolved) =>
               /\ status = "panic"
               /\ panic_message = ReturnFromTopLevel
               /\ output = <<>>
    /\ \A p \in {InitializerReturnValueProgram,
                 InitializerReturnAfterNestedProgram} :
           (program = ProgramIndex(p) /\ Resolved) =>
               /\ status = "panic"
               /\ panic_message = ReturnValueFromInitializer
               /\ output = <<>>
    /\ \A p \in ReturnAcceptedPrograms :
           (program = ProgramIndex(p) /\ Resolved) =>
               panic_message \notin {ReturnFromTopLevel, ReturnValueFromInitializer}
    /\ \A p \in {InitializerBareReturnProgram, InitializerNestedReturnProgram,
                 MethodReturnValueProgram} :
           (program = ProgramIndex(p) /\ status \in {"done", "panic"}) =>
               /\ status = "done"
               /\ output = <<"run">>

(* The program whose initializer returns a value from a nested function     *)
(* was accepted by the resolver and has run to its end.                     *)
C23_NestedReturnAccepted ==
    /\ program = ProgramIndex(InitializerNestedReturnProgram)
    /\ status = "done"
    /\ output = <<"run">>

ThisOutsideClass == "Can't use 'this' outside of a class."

SuperOutsideClass == "Can't use 'super' outside of a class."

SuperWithoutSuperclass == "Can't use 'super' in a class with no superclass."

ClassContextMessages ==
    {ThisOutsideClass, SuperOutsideClass, SuperWithoutSuperclass}

(* C24: the resolver accepts this only lexically inside a class body and    *)
(* super only lexically inside a class that declares a superclass.  After a *)
(* class declaration ends, this or super in top-level code or in a          *)
(* top-level function is rejected; super in a class without superclass is   *)
(* rejected, also when that class is nested in a method of a subclass; this *)
(* in a function nested in a method, and super in a subclass method after a *)
(* nested class declaration, are accepted.  A rejected program runs no      *)
(* statement.                                                               *)
C24_ThisSuperLexical ==
    /\ \A p \in {ThisTopLevelProgram, ThisInFunctionProgram} :
           (program = ProgramIndex(p) /\ Resolved) =>
               /\ status = "panic"
               /\ panic_message = ThisOutsideClass
               /\ output = <<>>
    /\ \A p \in {SuperTopLevelProgram, SuperInFunctionProgram} :
           (program = ProgramIndex(p) /\ Resolved) =>
               /\ status = "panic"
               /\ panic_message = SuperOutsideClass
               /\ output = <<>>
    /\ \A p \in {SuperNoSuperclassProgram, SuperInNestedClassProgram} :
           (program = ProgramIndex(p) /\ Resolved) =>
               /\ status = "panic"
               /\ panic_message = SuperWithoutSuperclass
               /\ output = <<>>
    /\ \A p \in {ThisInNestedFunctionProgram, SuperAfterNestedClassProgram,
                 InitFieldProgram, SuperProgram, SuperChainProgram,
                 BoundMethodProgram} :
           (program = ProgramIndex(p) /\ Resolved) =>
               panic_message \notin ClassContextMessages
    /\ \A p \in {ThisInNestedFunctionProgram, SuperAfterNestedClassProgram} :
           (program = ProgramIndex(p) /\ status \in {"done", "panic"}) =>
               /\ status = "done"
               /\ output = <<"run">>

(* The program with super in a class without superclass, nested in a method *)
(* of a subclass, has been rejected.                                        *)
C24_NestedClassSuperRejected ==
    /\ program = ProgramIndex(SuperInNestedClassProgram)
    /\ status = "panic"
    /\ panic_message = SuperWithoutSuperclass

(* C25: a variable declared with var and no initializer is bound in the     *)
(* current frame, and reading it before any assignment yields nil without   *)
(* an error, at global scope and in a local scope: both programs print nil  *)
(* and end normally.                                                        *)
C25_UninitializedReadsNil ==
    \A p \in {UninitializedGlobalProgram, UninitializedLocalProgram} :
        (program = ProgramIndex(p) /\ status \in {"done", "panic"}) =>
            /\ status = "done"
            /\ output = <<"nil">>

(* The declaration has bound the name in the current frame, with no value,  *)
(* and the read of it has panicked.                                         *)
C25_UninitializedReadPanics ==
    /\ program = ProgramIndex(UninitializedLocalProgram)
    /\ status = "panic"
    /\ panic_message = "REASON"
    /\ "a" \in DOMAIN envs[environment].values
    /\ envs[environment].values["a"] = None
    /\ environment # globals

(* The frames of the heap that bind the name. *)
FramesBinding(name) == {e \in 1..Len(envs) : name \in DOMAIN envs[e].values}

(* C26: Environment.assign updates the binding in the innermost frame of    *)
(* the chain that holds the name and leaves the other frames unchanged: an  *)
(* assignment to a global, from top level or from nested blocks, is seen by *)
(* a later read, and an assignment that starts at the enclosing frame       *)
(* changes that frame and not the global of the same name.  When no frame   *)
(* holds the name it reports UndefinedVariable through runtime_error and    *)
(* creates no binding in any frame, and the bindings that exist keep their  *)
(* values.                                                                  *)
C26_AssignInnermostOrUndefined ==
    /\ \A p \in {AssignGlobalProgram, AssignGlobalFromBlockProgram} :
           (program = ProgramIndex(p) /\ status \in {"done", "panic"}) =>
               /\ status = "done"
               /\ output = <<"after">>
               /\ envs[globals].values["a"] = String("after")
    /\ (program = ProgramIndex(AssignEnclosingProgram)
            /\ status \in {"done", "panic"}) =>
           /\ status = "done"
           /\ output = <<"inner", "inner", "global">>
           /\ envs[globals].values["a"] = String("global")
           /\ \E e \in FramesBinding("a") :
                  /\ envs[e].enclosing = globals
                  /\ envs[e].values["a"] = String("inner")
    /\ \A p \in {AssignUndefinedProgram, AssignUndefinedInBlockProgram} :
           /\ program = ProgramIndex(p) => FramesBinding("unset") = {}
           /\ (program = ProgramIndex(p) /\ status \in {"done", "panic"}) =>
                  /\ status = "panic"
                  /\ panic_message = UndefinedVariable("unset")
                  /\ had_runtime_error
    /\ (program = ProgramIndex(AssignUndefinedProgram)
            /\ status \in {"done", "panic"}) => output = <<"run">>
    /\ (program = ProgramIndex(AssignUndefinedInBlockProgram)
            /\ status \in {"done", "panic"}) =>
           /\ envs[globals].values["a"] = String("kept")
           /\ \A e \in FramesBinding("b") : envs[e].values["b"] = String("kept")

(* The assignment to a name that no frame holds, made two blocks deep, has  *)
(* reported the error and bound nothing.                                    *)
C26_UndefinedAssignReported ==
    /\ program = ProgramIndex(AssignUndefinedInBlockProgram)
    /\ status = "panic"
    /\ panic_message = UndefinedVariable("unset")
    /\ FramesBinding("unset") = {}
    /\ FramesBinding("b") # {}

(* C28: an assignment to a resolved local variable is not lost, at every    *)
(* depth: the Assign expression evaluates to the assigned value and every   *)
(* later read from the same scope or a nested one returns it.  The program  *)
(* assigning in the frame that declares the variable (depth 0), the one     *)
(* assigning from the next block (depth 1) and the one assigning from two   *)
(* blocks further in (depth 2) print the assigned value at every read.      *)
C28_LocalAssignmentKept ==
    /\ (program = ProgramIndex(AssignLocalProgram)
            /\ status \in {"done", "panic"}) =>
           /\ status = "done"
           /\ output = <<"after", "after", "after">>
    /\ (program = ProgramIndex(AssignEnclosingProgram)
            /\ status \in {"done", "panic"}) =>
           /\ status = "done"
           /\ output = <<"inner", "inner", "global">>
    /\ (program = ProgramIndex(AssignOuterLocalProgram)
            /\ status \in {"done", "panic"}) =>
           /\ status = "done"
           /\ output = <<"after", "after", "after">>

(* The depth-0 assignment has returned its value, and the reads after it    *)
(* have returned the value from before the assignment.                      *)
C28_LocalAssignmentLost ==
    /\ program = ProgramIndex(AssignLocalProgram)
    /\ status = "done"
    /\ output = <<"after", "before", "before">>

(* The evaluations of the loop's initializer, condition, increment and body *)
(* operand, in the order they began.                                        *)
ForEvents(start, limit) ==
    SelectSeq(Exprs(evaluated),
              LAMBDA e : e \in {ForInitializer(start), ForCondition(limit),
                                ForIncrement, ForBody.expr})

ForRound(limit) == << ForCondition(limit), ForBody.expr, ForIncrement >>

(* C27: a for loop with a var initializer evaluates the initializer once,   *)
(* the condition before every iteration and the increment after every       *)
(* execution of the body, stops at the first falsy condition, and keeps the *)
(* loop variable in a scope of its own.  The loop to 3 prints 0, 1, 2 with  *)
(* its clauses evaluated in that order, at top level and inside a block; a  *)
(* loop whose condition is false at once runs no body; a same-named         *)
(* variable of the enclosing scope, global or local, still reads "before"   *)
(* after the loop; and the loop variable is unbound after the loop.         *)
C27_ForLoop ==
    /\ \A p \in {ForProgram, ForInBlockProgram} :
           (program = ProgramIndex(p) /\ status \in {"done", "panic"}) =>
               /\ status = "done"
               /\ output = <<"0", "1", "2">>
               /\ ForEvents(0, 3) =
                      <<ForInitializer(0)>> \o ForRound(3) \o ForRound(3)
                          \o ForRound(3) \o <<ForCondition(3)>>
    /\ (program = ProgramIndex(ForNeverProgram)
            /\ status \in {"done", "panic"}) =>
           /\ status = "done"
           /\ output = <<"end">>
           /\ ForEvents(3, 2) = <<ForInitializer(3), ForCondition(2)>>
    /\ \A p \in {ForShadowGlobalProgram, ForShadowLocalProgram} :
           (program = ProgramIndex(p) /\ status \in {"done", "panic"}) =>
               /\ status = "done"
               /\ output = <<"0", "1", "before">>
    /\ (program = ProgramIndex(ForUnboundAfterProgram)
            /\ status \in {"done", "panic"}) =>
           /\ status = "panic"
           /\ panic_message = "Variable not found"
           /\ output = <<"0">>
           /\ "i" \notin DOMAIN envs[globals].values

(* The loop at top level has printed 0, 1, 2, its clauses evaluated in      *)
(* order.                                                                   *)
C27_TopLevelForLoop ==
    /\ program = ProgramIndex(ForProgram)
    /\ status = "done"
    /\ output = <<"0", "1", "2">>
    /\ ForEvents(0, 3) = <<ForInitializer(0)>> \o ForRound(3) \o ForRound(3)
                             \o ForRound(3) \o <<ForCondition(3)>>

(* The resolve_local calls that found an entry of their expression already  *)
(* in locals.                                                               *)
ReusedEntries == {i \in DOMAIN resolve_log : resolve_log[i].before # -1}

(* C29: resolution entries of distinct occurrences never collide.  The two  *)
(* reads of a, textually equal and on the same line at different nesting,   *)
(* each get an entry of their own: no resolve_local call finds an entry of  *)
(* its expression already present, and the program with both reads prints   *)
(* what the programs with one read each print: one, then two.               *)
C29_OccurrencesKeepTheirDepth ==
    /\ \A p \in {ShallowOccurrenceProgram, DeepOccurrenceProgram,
                 SameLineOccurrencesProgram} :
           program = ProgramIndex(p) => ReusedEntries = {}
    /\ (program = ProgramIndex(ShallowOccurrenceProgram)
            /\ status \in {"done", "panic"}) =>
           status = "done" /\ output = <<"one">>
    /\ (program = ProgramIndex(DeepOccurrenceProgram)
            /\ status \in {"done", "panic"}) =>
           status = "done" /\ output = <<"two">>
    /\ (program = ProgramIndex(SameLineOccurrencesProgram)
            /\ status \in {"done", "panic"}) =>
           status = "done" /\ output = <<"one", "two">>

(* The second read was resolved onto the entry of the first, changing its   *)
(* depth from 0 to 1, and the first read has failed with that depth.        *)
C29_SecondOccurrenceOverwrites ==
    /\ program = ProgramIndex(SameLineOccurrencesProgram)
    /\ \E i \in ReusedEntries :
           resolve_log[i].before = 0 /\ resolve_log[i].recorded = 1
    /\ LocalsGet(locals, Variable("a", 1)) = 1
    /\ status = "panic"
    /\ output = <<>>

(* Interpreter::interpret is between two top-level statements, or past the  *)
(* last one.                                                                *)
BetweenStatements ==
    /\ status \in {"interpret", "done"}
    /\ kont = <<>>
    /\ ctl.m \in {"idle", "result"}

(* C30: every statement leaves the current-environment pointer where it     *)
(* found it.  Between top-level statements the current environment is the   *)
(* globals frame, and a top-level var that follows a class declaration,     *)
(* with or without a superclass, defines its name in globals.               *)
C30_StatementsKeepEnvironment ==
    /\ BetweenStatements => environment = globals
    /\ \A p \in {SubclassThenVarProgram, ClassThenVarProgram} :
           (program = ProgramIndex(p) /\ status \in {"done", "panic"}) =>
               /\ status = "done"
               /\ output = <<"v">>
               /\ "x" \in DOMAIN envs[globals].values

(* After the declaration of a class with a superclass the program has       *)
(* ended with the current environment at the frame that binds super, and    *)
(* the top-level var is bound there and not in globals.                     *)
C30_SubclassLeavesSuperFrame ==
    /\ program = ProgramIndex(SubclassThenVarProgram)
    /\ status = "done"
    /\ environment # globals
    /\ DOMAIN envs[environment].values = {"super", "x"}
    /\ envs[environment].enclosing = globals
    /\ "x" \notin DOMAIN envs[globals].values

====
